---- MODULE Spec2Model ----
(***************************************************************************)
(* A model of tsignal: the signal/slot dispatch of src/tsignal/core.py     *)
(* (TSignal.connect / disconnect / emit, the t_slot adapters) and the      *)
(* worker pattern of src/tsignal/contrib/patterns/worker/decorators.py.    *)
(*                                                                         *)
(* Threads are named T1, T2, T3.  T1 and T2 each run an asyncio loop, which *)
(* carries the name of its thread; T3 is a plain thread with no loop.      *)
(***************************************************************************)
EXTENDS Integers, Sequences, FiniteSets, TLC

\* ------------------------------------------------------------------ bounds
MaxConns == 3
MaxEmits == 1
MaxCalls == 2
MaxStarts == 2
MaxStops == 2
MaxTasks == 3
MaxQueued == 3
MaxMoves == 2

\* --------------------------------------------------------------- constants
None == "None"

DIRECT_CONNECTION == 1
QUEUED_CONNECTION == 2
AUTO_CONNECTION == 3

Kinds == {DIRECT_CONNECTION, QUEUED_CONNECTION, AUTO_CONNECTION}

Threads == {"T1", "T2", "T3"}
Loops == {"T1", "T2"}

\* Objects: S owns the signal; R1 was constructed on T1 like S, R2 on T2;
\* P is an object of a class that is not decorated with t_with_signals, W an
\* instance of a class decorated with t_with_worker.
Objects == {"S", "R1", "R2", "P", "W"}

\* The functions user code connects; on_async is declared `async def`.
Funcs == {"on_sync", "on_async"}

\* What the body of a synchronous slot does when it runs.
Behaviours == {"return", "raise", "disconnect", "disconnect_self"}

\* The values user code emits, one after the other (emit(0), emit(1), ...).
Args == 0 .. MaxEmits - 1

VARIABLES
    objs,         \* object -> its _tsignal_thread/_tsignal_loop/_tsignal_affinity
    loopState,    \* loop -> "running" | "stopped" | "closed"
    ready,        \* loop -> the callbacks call_soon_threadsafe has queued
    owner,        \* TSignal.owner
    connections,  \* TSignal.connections, the list object the attribute names
    em,           \* the activation of TSignal.emit, if one is running
    emissions,    \* history: one record per emit call
    log,          \* history: one record per slot body that started
    removed,      \* history: (receiver, slot) pairs disconnected, not reconnected
    last,         \* history: the last API call and what it returned
    from_emit,    \* thread -> _tsignal_from_emit in the context it is running
    calls,        \* history and state of the direct calls of member slots
    worker,       \* the attributes of the WorkerClass instance
    runs,         \* one record per thread started by WorkerClass.start
    stopper,      \* the activation of WorkerClass.stop, if one is running
    events,       \* history: the worker's API calls and lifecycle signals
    tasks,        \* history: one record per queue_task call
    mover         \* the activation of WorkerClass.move_to_thread, if any

signalVars == <<objs, loopState, ready, owner, connections, em, emissions, log,
                removed, last, from_emit>>

workerVars == <<worker, runs, stopper, events, tasks, mover>>

vars == <<signalVars, calls, workerVars>>

\* ------------------------------------------------------------------ values
\* A Python value that may be passed to connect/disconnect: an object
\* (self only), a bound method (self and func), a function (func only) or
\* None (neither).
Val(s, f) == [self |-> s, func |-> f]
NoneVal == Val(None, None)

callable(v) == v.func # None
has_self(v) == v.func # None /\ v.self # None

\* asyncio.iscoroutinefunction
iscoroutinefunction(v) == v.func = "on_async"

\* The affinity record t_with_signals.__init__ writes on thread t.
t_with_signals(t) ==
    [hasThread |-> TRUE, thread |-> t, hasLoop |-> TRUE, loop |-> t,
     hasAffinity |-> TRUE, affinity |-> t]

\* An object whose class carries no decorator: no _tsignal_* attribute.
PlainObject ==
    [hasThread |-> FALSE, thread |-> None, hasLoop |-> FALSE, loop |-> None,
     hasAffinity |-> FALSE, affinity |-> None]

\* An undecorated object after a t_slot wrapper initialised it lazily on T1:
\* thread and loop, no token.
LazyObject ==
    [hasThread |-> TRUE, thread |-> "T1", hasLoop |-> TRUE, loop |-> "T1",
     hasAffinity |-> FALSE, affinity |-> None]

\* An object that was moved to a worker whose thread and loop are T2; a
\* started worker carries the same values.
MovedObject ==
    [hasThread |-> TRUE, thread |-> "T2", hasLoop |-> TRUE, loop |-> "T2",
     hasAffinity |-> TRUE, affinity |-> "W"]

\* WorkerClass.__init__: a worker that was not started has a token of its
\* own and neither thread nor loop.
IdleWorker ==
    [hasThread |-> TRUE, thread |-> None, hasLoop |-> TRUE, loop |-> None,
     hasAffinity |-> TRUE, affinity |-> "W"]

\* A worker between start() and the moment its thread publishes the loop.
StartingWorker ==
    [hasThread |-> TRUE, thread |-> "T2", hasLoop |-> TRUE, loop |-> None,
     hasAffinity |-> TRUE, affinity |-> "W"]

\* asyncio.get_running_loop() on thread t: the loop, or None for RuntimeError.
get_running_loop(t) ==
    IF t \in Loops /\ loopState[t] = "running" THEN t ELSE None

\* tsignal.utils.t_signal_log_and_raise_error(logger, error_class, message):
\* the message is logged and error_class is raised.
t_signal_log_and_raise_error(error_class) == error_class

\* Mutant of t_with_signals_init: without a running loop the object is bound
\* to the loop of the main thread instead of the construction failing.
t_with_signals_init_pick_loop(t, loop) ==
    LET current_loop == IF loop # None THEN loop
                        ELSE IF get_running_loop(t) # None
                             THEN get_running_loop(t) ELSE "T1"
    IN  [raised |-> None, original_init |-> 1,
         record |-> [hasThread |-> TRUE, thread |-> t, hasLoop |-> TRUE,
                     loop |-> current_loop, hasAffinity |-> TRUE,
                     affinity |-> t]]

\* Mutant of t_with_signals_init: the loop, not the thread, is the token.
t_with_signals_init_loop_token(t, loop) ==
    LET current_loop == IF loop = None THEN get_running_loop(t) ELSE loop
    IN  IF current_loop = None
        THEN [raised |-> t_signal_log_and_raise_error("RuntimeError"),
              original_init |-> 0, record |-> PlainObject]
        ELSE [raised |-> None, original_init |-> 1,
              record |-> [hasThread |-> TRUE, thread |-> t, hasLoop |-> TRUE,
                          loop |-> current_loop, hasAffinity |-> TRUE,
                          affinity |-> current_loop]]

\* The __init__ that t_with_signals(cls, loop=loop) installs, run on thread
\* t for an object that has no attribute yet: the exception raised, the
\* attributes the object has afterwards and how often the class's own
\* __init__ ran.
t_with_signals_init(t, loop) ==
    LET current_loop == IF loop = None THEN get_running_loop(t) ELSE loop
    IN  IF current_loop = None
        THEN [raised |-> t_signal_log_and_raise_error("RuntimeError"),
              original_init |-> 0, record |-> PlainObject]
        ELSE [raised |-> None, original_init |-> 1,
              record |-> [hasThread |-> TRUE, thread |-> t, hasLoop |-> TRUE,
                          loop |-> current_loop, hasAffinity |-> TRUE,
                          affinity |-> t]]

\* ----------------------------------------------------------------- connect
\* A connection tuple (receiver, slot, conn_type, is_coro_slot).  `slot` holds
\* the callable the user passed; `wrapped` says that the tuple's slot is the
\* _wrap_standalone_function wrapper around it (its __wrapped__).
Conn(r, s, w, k, c) ==
    [receiver |-> r, slot |-> s, wrapped |-> w, conn_type |-> k,
     is_coro_slot |-> c]

\* connect checking the kind only after it has appended the connection.
connect_append_first(conns, receiver_or_slot, slot, conn_type) ==
    LET is_coro == iscoroutinefunction(IF slot = NoneVal THEN receiver_or_slot
                                                         ELSE slot)
        conn == Conn(receiver_or_slot.self, slot, FALSE, conn_type, is_coro)
    IN  IF slot = NoneVal /\ ~callable(receiver_or_slot)
        THEN [raised |-> "TypeError", connections |-> conns]
        ELSE IF slot # NoneVal /\ receiver_or_slot = NoneVal
        THEN [raised |-> "AttributeError", connections |-> conns]
        ELSE IF slot # NoneVal /\ ~callable(slot)
        THEN [raised |-> "TypeError", connections |-> conns]
        ELSE [raised |-> IF conn_type \notin Kinds THEN "ValueError" ELSE None,
              connections |-> Append(conns, conn)]

\* TSignal.connect(receiver_or_slot, slot, conn_type) on the list `conns`:
\* the exception raised (None when it returns) and the list afterwards.
connect(conns, receiver_or_slot, slot, conn_type) ==
    LET Raise(e) == [raised |-> e, connections |-> conns]
        Append1(c) == [raised |-> None, connections |-> Append(conns, c)]
        is_coro == iscoroutinefunction(IF slot = NoneVal THEN receiver_or_slot
                                                         ELSE slot)
        obj == receiver_or_slot.self
        conn ==
            IF slot = NoneVal
            THEN IF has_self(receiver_or_slot)
                    /\ objs[obj].hasThread /\ objs[obj].hasLoop
                 THEN Conn(obj, receiver_or_slot, FALSE, conn_type, is_coro)
                 ELSE Conn(None, receiver_or_slot, TRUE, conn_type, is_coro)
            ELSE Conn(receiver_or_slot.self, slot, FALSE, conn_type, is_coro)
    IN  IF slot = NoneVal /\ ~callable(receiver_or_slot) THEN Raise("TypeError")
        ELSE IF slot # NoneVal /\ receiver_or_slot = NoneVal
             THEN Raise("AttributeError")
        ELSE IF slot # NoneVal /\ ~callable(slot) THEN Raise("TypeError")
        ELSE IF conn_type \notin Kinds THEN Raise("ValueError")
        ELSE Append1(conn)

\* -------------------------------------------------------------- disconnect
\* `s == slot` and `getattr(s, "__wrapped__", None) == slot` for the slot s of
\* connection c: a wrapper is a fresh function, equal to nothing the caller
\* holds; a bound method equals a bound method of the same object and function.
slot_eq(c, slot) == ~c.wrapped /\ c.slot = slot
wrapped_eq(c, slot) == c.wrapped /\ c.slot = slot

\* Mutant of disconnect_match: the function a wrapper wraps is not compared.
disconnect_match_slot_only(c, receiver, slot) ==
    IF c.receiver = None /\ slot # NoneVal
    THEN slot_eq(c, slot)
    ELSE /\ (receiver = None \/ c.receiver = receiver)
         /\ (slot = NoneVal \/ slot_eq(c, slot))

\* The test of disconnect's loop: connection c is dropped.
disconnect_match(c, receiver, slot) ==
    IF c.receiver = None /\ slot # NoneVal
    THEN wrapped_eq(c, slot) \/ slot_eq(c, slot)
    ELSE /\ (receiver = None \/ c.receiver = receiver)
         /\ (slot = NoneVal \/ slot_eq(c, slot))

\* Mutant of disconnect: only the first matching connection is dropped.
disconnect_first_match(conns, receiver, slot) ==
    IF receiver = None /\ slot = NoneVal
    THEN [connections |-> <<>>, count |-> Len(conns), rebound |-> FALSE]
    ELSE LET hits == {i \in DOMAIN conns :
                         disconnect_match(conns[i], receiver, slot)}
             first == CHOOSE i \in hits : \A j \in hits : i <= j
             new_connections ==
                 IF hits = {} THEN conns
                 ELSE SubSeq(conns, 1, first - 1)
                      \o SubSeq(conns, first + 1, Len(conns))
         IN  [connections |-> new_connections,
              count |-> Len(conns) - Len(new_connections),
              rebound |-> TRUE]

\* Mutant of disconnect: with no arguments the count is taken after the
\* list has been cleared.
disconnect_count_after_clear(conns, receiver, slot) ==
    IF receiver = None /\ slot = NoneVal
    THEN [connections |-> <<>>, count |-> 0, rebound |-> FALSE]
    ELSE LET new_connections ==
                 SelectSeq(conns, LAMBDA c : ~disconnect_match(c, receiver, slot))
         IN  [connections |-> new_connections,
              count |-> Len(conns) - Len(new_connections),
              rebound |-> TRUE]

\* Mutant of disconnect: the surviving connections are collected by
\* inserting each at the front of the new list.
disconnect_insert_front(conns, receiver, slot) ==
    IF receiver = None /\ slot = NoneVal
    THEN [connections |-> <<>>, count |-> Len(conns), rebound |-> FALSE]
    ELSE LET kept ==
                 SelectSeq(conns, LAMBDA c : ~disconnect_match(c, receiver, slot))
             new_connections ==
                 [i \in 1 .. Len(kept) |-> kept[Len(kept) + 1 - i]]
         IN  [connections |-> new_connections,
              count |-> Len(conns) - Len(new_connections),
              rebound |-> TRUE]

\* TSignal.disconnect(receiver, slot) on the list `conns`: the list the
\* attribute names afterwards, the count returned, and whether the attribute
\* was rebound to a new list (otherwise the same list object was cleared).
disconnect(conns, receiver, slot) ==
    IF receiver = None /\ slot = NoneVal
    THEN [connections |-> <<>>, count |-> Len(conns), rebound |-> FALSE]
    ELSE LET new_connections ==
                 SelectSeq(conns, LAMBDA c : ~disconnect_match(c, receiver, slot))
         IN  [connections |-> new_connections,
              count |-> Len(conns) - Len(new_connections),
              rebound |-> TRUE]

\* ------------------------------------------------------ effective kind
hasattr_thread(o) == o # None /\ objs[o].hasThread
hasattr_affinity(o) == o # None /\ objs[o].hasAffinity

\* Mutant of determine_connection_type: Auto compares the owner threads of
\* receiver and signal owner instead of their affinity tokens.
determine_by_thread(conn_type, receiver, own, is_coro_slot) ==
    IF conn_type = AUTO_CONNECTION
    THEN IF is_coro_slot THEN QUEUED_CONNECTION
         ELSE IF /\ receiver # None
                 /\ hasattr_thread(receiver)
                 /\ hasattr_thread(own)
              THEN IF objs[receiver].thread = objs[own].thread
                   THEN DIRECT_CONNECTION
                   ELSE QUEUED_CONNECTION
              ELSE DIRECT_CONNECTION
    ELSE conn_type

\* _determine_connection_type(conn_type, receiver, owner, is_coro_slot)
determine_connection_type(conn_type, receiver, own, is_coro_slot) ==
    IF conn_type = AUTO_CONNECTION
    THEN IF is_coro_slot THEN QUEUED_CONNECTION
         ELSE IF /\ receiver # None
                 /\ hasattr_thread(receiver)
                 /\ hasattr_thread(own)
                 /\ hasattr_affinity(receiver)
                 /\ hasattr_affinity(own)
              THEN IF objs[receiver].affinity = objs[own].affinity
                   THEN DIRECT_CONNECTION
                   ELSE QUEUED_CONNECTION
              ELSE DIRECT_CONNECTION
    ELSE conn_type

\* ------------------------------------------------------------ slot adapters
\* Mutant of t_slot_wrap_sync: the wrapper never marshals.
t_slot_wrap_sync_here(o, t, flag) ==
    LET r0 == objs[o]
        r1 == IF r0.hasThread THEN r0
              ELSE [r0 EXCEPT !.hasThread = TRUE, !.thread = t]
        loop == get_running_loop(t)
        r2 == IF r1.hasLoop \/ loop = None THEN r1
              ELSE [r1 EXCEPT !.hasLoop = TRUE, !.loop = loop]
    IN  IF ~r1.hasLoop /\ loop = None
        THEN [obj |-> r1, outcome |-> "RuntimeError"]
        ELSE [obj |-> r2, outcome |-> "body"]

\* Mutant of t_slot_wrap_sync: the wrapper does not read the emission flag.
t_slot_wrap_sync_ignore_flag(o, t, flag) ==
    LET r0 == objs[o]
        r1 == IF r0.hasThread THEN r0
              ELSE [r0 EXCEPT !.hasThread = TRUE, !.thread = t]
        loop == get_running_loop(t)
        r2 == IF r1.hasLoop \/ loop = None THEN r1
              ELSE [r1 EXCEPT !.hasLoop = TRUE, !.loop = loop]
    IN  IF ~r1.hasLoop /\ loop = None
        THEN [obj |-> r1, outcome |-> "RuntimeError"]
        ELSE IF t # r2.thread
             THEN [obj |-> r2, outcome |-> "marshal"]
             ELSE [obj |-> r2, outcome |-> "body"]

\* The prologue of t_slot's wrapper for a synchronous method of object o,
\* called on thread t with _tsignal_from_emit = flag: the object's record
\* afterwards and what the wrapper does next ("body": calls func here,
\* "marshal": posts a callback to the owner's loop, "RuntimeError": raises).
t_slot_wrap_sync(o, t, flag) ==
    LET r0 == objs[o]
        r1 == IF r0.hasThread THEN r0
              ELSE [r0 EXCEPT !.hasThread = TRUE, !.thread = t]
        loop == get_running_loop(t)
        r2 == IF r1.hasLoop \/ loop = None THEN r1
              ELSE [r1 EXCEPT !.hasLoop = TRUE, !.loop = loop]
    IN  IF ~r1.hasLoop /\ loop = None
        THEN [obj |-> r1, outcome |-> "RuntimeError"]
        ELSE IF ~flag /\ t # r2.thread
             THEN [obj |-> r2, outcome |-> "marshal"]
             ELSE [obj |-> r2, outcome |-> "body"]

\* The prologue of t_slot's wrapper for an `async def` method, once the
\* coroutine it returns is run on thread t.
t_slot_wrap_async(o, t, flag) ==
    LET r0 == objs[o]
        loop == get_running_loop(t)
        r1 == IF r0.hasThread THEN r0
              ELSE [r0 EXCEPT !.hasThread = TRUE, !.thread = t]
        r2 == IF r1.hasLoop THEN r1
              ELSE [r1 EXCEPT !.hasLoop = TRUE, !.loop = loop]
    IN  IF loop = None
        THEN [obj |-> r0, outcome |-> "RuntimeError"]
        ELSE IF ~flag /\ t # r2.thread
             THEN [obj |-> r2, outcome |-> "marshal"]
             ELSE [obj |-> r2, outcome |-> "body"]

\* Calling the synchronous callable v on thread t: a bound method goes
\* through its t_slot wrapper, a plain function runs its body.
call_sync(v, t, flag) ==
    IF has_self(v)
    THEN LET w == t_slot_wrap_sync(v.self, t, flag)
         IN  [objs |-> [objs EXCEPT ![v.self] = w.obj], outcome |-> w.outcome]
    ELSE [objs |-> objs, outcome |-> "body"]

\* Running the coroutine made from the `async def` callable v on thread t.
run_coro(v, t, flag) ==
    IF has_self(v)
    THEN LET w == t_slot_wrap_async(v.self, t, flag)
         IN  [objs |-> [objs EXCEPT ![v.self] = w.obj], outcome |-> w.outcome]
    ELSE [objs |-> objs, outcome |-> "body"]

\* Thread t is inside future.result() (core.py 426): it has posted the
\* callback of a direct call and has not been handed the result yet.
Blocked(t) ==
    \E i \in DOMAIN calls : calls[i].caller = t /\ calls[i].state = "blocked"

\* -------------------------------------------------------------------- emit
EmIdle ==
    [active |-> FALSE, thread |-> None, eid |-> 0, arg |-> 0, aliased |-> FALSE,
     list |-> <<>>, idx |-> 0, token |-> FALSE, raised |-> FALSE]

\* The list object emit's `for` statement iterates: the one the attribute
\* named when the loop began, which is still the attribute's list unless a
\* disconnect has rebound the attribute since.
IterList == IF em.aliased THEN connections ELSE em.list

\* Mutant of except_Exception: the exception leaves the loop and emit.
except_reraise(frame) ==
    [frame EXCEPT !.raised = TRUE, !.aliased = FALSE, !.list = <<>>]

\* `except Exception` around one dispatch (core.py 307-310): the error is
\* logged and the loop goes on with the frame unchanged.
except_Exception(frame) == frame

\* emit posting every queued closure on the loop of the emitting thread.
emit_dispatch_on_emitter_loop(c, kind, t) ==
    IF kind = DIRECT_CONNECTION
    THEN IF c.is_coro_slot
         THEN [objs |-> objs, loop |-> None,
               outcome |-> IF c.wrapped /\ get_running_loop(t) = None
                           THEN "RuntimeError" ELSE "coroutine"]
         ELSE LET r == call_sync(c.slot, t, TRUE)
              IN  [objs |-> r.objs, loop |-> None, outcome |-> r.outcome]
    ELSE LET receiver_loop == get_running_loop(t)
         IN  [objs |-> objs, loop |-> receiver_loop,
              outcome |->
                  IF receiver_loop = None
                  THEN IF c.receiver # None THEN "no_loop" ELSE "RuntimeError"
                  ELSE IF loopState[receiver_loop] # "running"
                       THEN "not_running"
                       ELSE "posted"]

\* Mutant of emit_dispatch: a queued connection whose target loop is the loop
\* running on the emitting thread has its slot called inside emit.
emit_dispatch_inline(c, kind, t) ==
    LET receiver_loop ==
            IF c.receiver # None
            THEN IF objs[c.receiver].hasLoop THEN objs[c.receiver].loop
                                             ELSE None
            ELSE get_running_loop(t)
    IN  IF kind = DIRECT_CONNECTION
           \/ (receiver_loop # None /\ receiver_loop = get_running_loop(t)
               /\ ~c.is_coro_slot)
        THEN IF c.is_coro_slot
             THEN [objs |-> objs, loop |-> None,
                   outcome |-> IF c.wrapped /\ get_running_loop(t) = None
                               THEN "RuntimeError" ELSE "coroutine"]
             ELSE LET r == call_sync(c.slot, t, TRUE)
                  IN  [objs |-> r.objs, loop |-> None, outcome |-> r.outcome]
        ELSE [objs |-> objs, loop |-> receiver_loop,
              outcome |->
                  IF receiver_loop = None
                  THEN IF c.receiver # None THEN "no_loop" ELSE "RuntimeError"
                  ELSE IF loopState[receiver_loop] # "running"
                       THEN "not_running"
                       ELSE "posted"]

\* Mutant of emit_dispatch: the closure is posted to the receiver's loop
\* whether or not that loop is running.
emit_dispatch_post_anyway(c, kind, t) ==
    IF kind = DIRECT_CONNECTION
    THEN IF c.is_coro_slot
         THEN [objs |-> objs, loop |-> None,
               outcome |-> IF c.wrapped /\ get_running_loop(t) = None
                           THEN "RuntimeError" ELSE "coroutine"]
         ELSE LET r == call_sync(c.slot, t, TRUE)
              IN  [objs |-> r.objs, loop |-> None, outcome |-> r.outcome]
    ELSE LET receiver_loop ==
                 IF c.receiver # None
                 THEN IF objs[c.receiver].hasLoop THEN objs[c.receiver].loop
                                                  ELSE None
                 ELSE get_running_loop(t)
         IN  [objs |-> objs, loop |-> receiver_loop,
              outcome |->
                  IF receiver_loop = None
                  THEN IF c.receiver # None THEN "no_loop" ELSE "RuntimeError"
                  ELSE "posted"]

\* One dispatch of connection c with effective kind `kind` by emit running on
\* thread t: the objects afterwards, what happened, and the loop posted to.
emit_dispatch(c, kind, t) ==
    IF kind = DIRECT_CONNECTION
    THEN IF c.is_coro_slot
         THEN [objs |-> objs, loop |-> None,
               outcome |-> IF c.wrapped /\ get_running_loop(t) = None
                           THEN "RuntimeError" ELSE "coroutine"]
         ELSE LET r == call_sync(c.slot, t, TRUE)
              IN  [objs |-> r.objs, loop |-> None, outcome |-> r.outcome]
    ELSE LET receiver_loop ==
                 IF c.receiver # None
                 THEN IF objs[c.receiver].hasLoop THEN objs[c.receiver].loop
                                                  ELSE None
                 ELSE get_running_loop(t)
         IN  [objs |-> objs, loop |-> receiver_loop,
              outcome |->
                  IF receiver_loop = None
                  THEN IF c.receiver # None THEN "no_loop" ELSE "RuntimeError"
                  ELSE IF loopState[receiver_loop] # "running"
                       THEN "not_running"
                       ELSE "posted"]

\* What the body of a synchronous slot, run for connection c, does to the
\* signal: the attribute's list and the frame of the running emit.  A body
\* that connects calls connect(f) for a function f: connect appends to the
\* list the attribute names, which is the list emit iterates unless a
\* disconnect has rebound the attribute.
body_effect(b, c) ==
    LET d == IF b = "disconnect" THEN disconnect(connections, None, NoneVal)
             ELSE disconnect(connections, c.receiver, c.slot)
    IN  IF b \in {"disconnect", "disconnect_self"}
        THEN [connections |-> d.connections,
              em |-> IF d.rebound /\ em.aliased
                     THEN [em EXCEPT !.aliased = FALSE, !.list = connections]
                     ELSE em,
              removed |-> IF b = "disconnect_self" /\ c.receiver # None
                             /\ d.count > 0
                          THEN removed \cup {<<c.receiver, c.slot>>}
                          ELSE removed]
        ELSE IF b = "connect"
        THEN [connections |->
                  connect(connections, Val(None, "on_sync"), NoneVal,
                          AUTO_CONNECTION).connections,
              em |-> em, removed |-> removed]
        ELSE [connections |-> connections, em |-> em, removed |-> removed]

\* Mutant of call_soon_threadsafe: the callback jumps the queue.
call_soon_first(q, cb) == <<cb>> \o q

\* loop.call_soon_threadsafe(cb) on the queue q of a loop: cb goes last.
call_soon_threadsafe(q, cb) == Append(q, cb)

LogEntry(eid, pos, c, arg, t, b) ==
    [eid |-> eid, pos |-> pos, conn |-> c, arg |-> arg, thread |-> t, beh |-> b]

\* Mutant of Closure: `dispatch` binds the loop variable late, so that it
\* calls whatever slot the loop reached last.
Closure_late_binding(type, eid, pos, c, arg) ==
    [type |-> type, eid |-> eid, pos |-> pos,
     conn |-> IterList[Len(IterList)], arg |-> arg, ctx |-> TRUE]

\* The closure `dispatch` (core.py 286-305) as call_soon_threadsafe queues
\* it: the slot and arguments it has bound and the context it will run in,
\* a copy of emit's, in which _tsignal_from_emit is set.
Closure(type, eid, pos, c, arg) ==
    [type |-> type, eid |-> eid, pos |-> pos, conn |-> c, arg |-> arg,
     ctx |-> TRUE]

\* History: the API call `op`, its arguments, the integer it returned (for a
\* call that returns None: the exception it raised, or None) and the number
\* of connections the signal held when it was called.
Call(op, receiver, slot, ret, held) ==
    [op |-> op, receiver |-> receiver, slot |-> slot, ret |-> ret,
     held |-> held]

\* emit(*args) is called on thread t: the flag is set and the loop begins.
EmitStart(t, arg) ==
    /\ ~em.active
    /\ ~Blocked(t)
    /\ arg = Len(emissions)
    /\ em' = [active |-> TRUE, thread |-> t, eid |-> Len(emissions) + 1,
              arg |-> arg, aliased |-> TRUE, list |-> <<>>, idx |-> 0,
              token |-> from_emit[t], raised |-> FALSE]
    /\ from_emit' = [from_emit EXCEPT ![t] = TRUE]
    /\ emissions' = Append(emissions,
                           [arg |-> arg, thread |-> t, start |-> connections,
                            flag |-> from_emit[t],
                            removed |-> removed, trace |-> <<>>,
                            after_clear |-> /\ last.op = "disconnect"
                                            /\ last.receiver = None
                                            /\ last.slot = NoneVal
                                            /\ last.held > 0,
                            result |-> "running"])
    /\ last' = Call("emit", None, NoneVal, 0, 0)
    /\ UNCHANGED <<objs, loopState, ready, owner, connections, log, removed>>
    /\ UNCHANGED <<calls, workerVars>>

\* One turn of emit's loop: the next connection of the iterated list is
\* dispatched; a direct synchronous slot runs its body, which does b.
EmitStep(b) ==
    /\ em.active
    /\ em.idx < Len(IterList)
    /\ LET c == IterList[em.idx + 1]
           pos == em.idx + 1
           kind == determine_connection_type(c.conn_type, c.receiver, owner,
                                             c.is_coro_slot)
           d == emit_dispatch(c, kind, em.thread)
           ran == d.outcome = "body"
           eff == body_effect(IF ran THEN b ELSE "return", c)
           raised == d.outcome = "RuntimeError" \/ (ran /\ b = "raise")
           frame == IF raised THEN except_Exception(eff.em) ELSE eff.em
       IN  /\ ran \/ b = "return"
           /\ objs' = d.objs
           /\ log' = IF ran
                     THEN Append(log, LogEntry(em.eid, pos, c, em.arg,
                                               em.thread, b))
                     ELSE log
           /\ connections' = eff.connections
           /\ removed' = eff.removed
           /\ em' = [frame EXCEPT !.idx = @ + 1]
           /\ ready' = IF d.outcome = "posted"
                       THEN [ready EXCEPT ![d.loop] =
                                call_soon_threadsafe(
                                    @, Closure("dispatch", em.eid, pos, c,
                                               em.arg))]
                       ELSE ready
           /\ emissions' = [emissions EXCEPT ![em.eid].trace =
                               Append(@, [pos |-> pos, kind |-> kind,
                                          outcome |-> d.outcome])]
    /\ UNCHANGED <<loopState, owner, last, from_emit>>
    /\ UNCHANGED <<calls, workerVars>>

\* Mutant of EmitEnd: `finally` unsets the flag instead of resetting it to
\* the value the token holds.
EmitEnd_unset ==
    /\ em.active
    /\ em.idx >= Len(IterList)
    /\ from_emit' = [from_emit EXCEPT ![em.thread] = FALSE]
    /\ emissions' = [emissions EXCEPT ![em.eid].result =
                        IF em.raised THEN "raised" ELSE "returned"]
    /\ em' = EmIdle
    /\ UNCHANGED <<objs, loopState, ready, owner, connections, log, removed,
                   last>>
    /\ UNCHANGED <<calls, workerVars>>

\* The iterator is exhausted (or an exception left the loop): `finally`
\* resets the flag and emit returns or raises.
EmitEnd ==
    /\ em.active
    /\ em.idx >= Len(IterList)
    /\ from_emit' = [from_emit EXCEPT ![em.thread] = em.token]
    /\ emissions' = [emissions EXCEPT ![em.eid].result =
                        IF em.raised THEN "raised" ELSE "returned"]
    /\ em' = EmIdle
    /\ UNCHANGED <<objs, loopState, ready, owner, connections, log, removed,
                   last>>
    /\ UNCHANGED <<calls, workerVars>>

\* ------------------------------------------------------------- event loops
\* Loop l runs the callback at the head of its queue: a `dispatch` closure of
\* emit, or the first step of a task made by one.
LoopRun(l, b) ==
    /\ loopState[l] = "running"
    /\ ready[l] # <<>>
    /\ ~(em.active /\ em.thread = l)
    /\ ~Blocked(l)
    /\ Head(ready[l]).type \in {"dispatch", "task"}
    /\ LET h == Head(ready[l])
           c == h.conn
           spawn == h.type = "dispatch" /\ c.is_coro_slot
           r == IF h.type = "task" THEN run_coro(c.slot, l, h.ctx)
                ELSE call_sync(c.slot, l, h.ctx)
           ran == ~spawn /\ r.outcome = "body"
       IN  /\ ran \/ b = "return"
           /\ b \in {"return", "raise"}
           /\ ready' = [ready EXCEPT ![l] =
                           IF spawn
                           THEN Append(Tail(@), [h EXCEPT !.type = "task"])
                           ELSE Tail(@)]
           /\ objs' = IF spawn THEN objs ELSE r.objs
           /\ log' = IF ran
                     THEN Append(log, LogEntry(h.eid, h.pos, c, h.arg, l, b))
                     ELSE log
    /\ UNCHANGED <<loopState, owner, connections, em, emissions, removed, last,
                   from_emit>>
    /\ UNCHANGED <<calls, workerVars>>

\* ------------------------------------------------------------ the API calls
\* The callables user code holds: the slots of R1, R2 and P and two
\* module-level functions.
SlotVals == {Val(o, f) : o \in {"R1", "R2", "P", None}, f \in Funcs}

\* The connect calls user code makes.
ConnectArgs ==
    {[ros |-> Val("R1", f), slot |-> NoneVal, kind |-> k] :
         f \in Funcs, k \in Kinds}
    \cup {[ros |-> Val("R2", "on_sync"), slot |-> NoneVal, kind |-> k] :
              k \in {AUTO_CONNECTION, DIRECT_CONNECTION}}
    \cup {[ros |-> Val(None, f), slot |-> NoneVal, kind |-> AUTO_CONNECTION] :
              f \in Funcs}
    \cup {[ros |-> Val("P", "on_sync"), slot |-> NoneVal,
           kind |-> AUTO_CONNECTION]}

\* The disconnect calls user code makes.
DisconnectArgs ==
    {[receiver |-> r, slot |-> s] :
         r \in {None, "R1"},
         s \in {NoneVal, Val("R1", "on_sync"), Val(None, "on_sync")}}

Connect(a) ==
    /\ ~em.active
    /\ Len(emissions) < MaxEmits
    /\ Len(connections) < MaxConns
    /\ LET r == connect(connections, a.ros, a.slot, a.kind)
           new == r.connections[Len(r.connections)]
       IN  /\ connections' = r.connections
           /\ removed' = IF r.raised = None
                         THEN removed \ {<<new.receiver, new.slot>>}
                         ELSE removed
           /\ last' = Call("connect", None, NoneVal, 0, 0)
    /\ UNCHANGED <<objs, loopState, ready, owner, em, emissions, log,
                   from_emit>>
    /\ UNCHANGED <<calls, workerVars>>

\* Everything user code may hand to connect: for receiver_or_slot None, the
\* object R1, a method of R1 or a function; for slot None, the object R1 (not
\* callable) or a method of R1; for conn_type the three kinds and two values
\* that are none of them.
AnyConnectArgs ==
    {[ros |-> r, slot |-> sl, kind |-> k] :
         r \in {NoneVal, Val("R1", None), Val("R1", "on_sync"),
                Val(None, "on_async")},
         sl \in {NoneVal, Val("R1", None), Val("R1", "on_sync")},
         k \in 0 .. 4}

\* connect(receiver_or_slot, slot, conn_type) with any of these arguments; the
\* history keeps the exception.
ConnectAny(a) ==
    /\ ~em.active
    /\ Len(connections) < MaxConns
    /\ LET r == connect(connections, a.ros, a.slot, a.kind)
       IN  /\ connections' = r.connections
           /\ last' = Call("connect", None, NoneVal, r.raised,
                           Len(connections))
    /\ UNCHANGED <<objs, loopState, ready, owner, em, emissions, log, removed,
                   from_emit>>
    /\ UNCHANGED <<calls, workerVars>>

Disconnect(receiver, slot) ==
    /\ ~em.active
    /\ Len(emissions) < MaxEmits
    /\ LET d == disconnect(connections, receiver, slot)
       IN  /\ connections' = d.connections
           /\ removed' = IF receiver # None /\ slot # NoneVal /\ d.count > 0
                         THEN removed \cup {<<receiver, slot>>}
                         ELSE removed
           /\ last' = Call("disconnect", receiver, slot, d.count,
                            Len(connections))
    /\ UNCHANGED <<objs, loopState, ready, owner, em, emissions, log,
                   from_emit>>
    /\ UNCHANGED <<calls, workerVars>>

\* The objects user code constructs.
ConstructTargets == {"S", "R1", "R2"}

\* cls(...) of a class decorated with t_with_signals(loop=loop), called on
\* thread t for object o.  The history keeps the exception and, as `held`,
\* how often the class's own __init__ ran.
Construct(o, t, loop) ==
    /\ ~em.active
    /\ ~Blocked(t)
    /\ objs[o] = PlainObject
    /\ LET r == t_with_signals_init(t, loop)
       IN  /\ objs' = [objs EXCEPT ![o] = r.record]
           /\ last' = Call("construct", o, NoneVal, r.raised, r.original_init)
    /\ UNCHANGED <<loopState, ready, owner, connections, em, emissions, log,
                   removed, from_emit>>
    /\ UNCHANGED <<calls, workerVars>>


\* ------------------------------------------------------------ direct calls
\* What the body of a member slot does when user code calls the slot: it
\* returns a value or raises an exception (an instance of Exception).
NoOutcome == [kind |-> "none", value |-> None]

Outcomes ==
    {[kind |-> "return", value |-> v] : v \in {"v1", "v2"}}
    \cup {[kind |-> "raise", value |-> e] : e \in {"ValueError", "KeyError"}}

Raises(e) == [kind |-> "raise", value |-> e]

\* The slot body has not run / has run on thread t with outcome out.
NoBody == [thread |-> None, out |-> NoOutcome]
Body(t, out) == [thread |-> t, out |-> out]

\* concurrent.futures.Future(): set_result, set_exception and result().
Future == [state |-> "PENDING", result |-> None, exception |-> None]
set_result(fut, v) == [fut EXCEPT !.state = "FINISHED", !.result = v]
set_exception(fut, e) == [fut EXCEPT !.state = "FINISHED", !.exception = e]

future_result(fut) ==
    IF fut.exception # None
    THEN [kind |-> "raise", value |-> fut.exception]
    ELSE [kind |-> "return", value |-> fut.result]

\* Mutant of callback: an exception of the body is swallowed and the future
\* completes with None.
callback_swallow(fut, out) ==
    IF out.kind = "raise" THEN set_result(fut, None)
    ELSE set_result(fut, out.value)

\* `callback` (core.py 415-423), run by the owner's loop: the body is called
\* and its result or its exception is stored in the future.
callback(fut, out) ==
    IF out.kind = "raise" THEN set_exception(fut, out.value)
    ELSE set_result(fut, out.value)

\* The member slots user code calls directly.
CallTargets == {Val(o, f) : o \in {"R1", "R2", "P"}, f \in Funcs}

\* The entry call_soon_threadsafe / run_coroutine_threadsafe queues on a loop
\* for direct call i of slot v: `callback` ("callback"), the callback that
\* makes a task of the coroutine ("coro"), the first step of that task
\* ("coro_task"), the wake-up of the awaiting caller ("resume").
CallItem(type, i, v, flag) ==
    [type |-> type, eid |-> i, pos |-> 0,
     conn |-> Conn(v.self, v, FALSE, DIRECT_CONNECTION,
                   iscoroutinefunction(v)),
     arg |-> 0, ctx |-> flag]

\* Thread t is running the body of a slot that emit has just called.
InSlotBody(t) ==
    /\ em.active
    /\ em.thread = t
    /\ emissions[em.eid].trace # <<>>
    /\ emissions[em.eid].trace[Len(emissions[em.eid].trace)].outcome = "body"

\* User code on thread t calls the member slot v (for an `async def` slot:
\* awaits the call): the wrapper of t_slot runs up to the point where the
\* body has run on t, the call has been posted to the owner's loop, or an
\* exception has been raised.  A call made while emit is active on t is
\* made by the slot body emit has just called.
DirectCall(t, v, out) ==
    /\ Len(calls) < MaxCalls
    /\ ~Blocked(t)
    /\ (em.active /\ em.thread = t) => InSlotBody(t)
    /\ LET flag == from_emit[t]
           coro == iscoroutinefunction(v)
           w == IF coro THEN t_slot_wrap_async(v.self, t, flag)
                ELSE t_slot_wrap_sync(v.self, t, flag)
           i == Len(calls) + 1
           loop == IF w.obj.hasLoop THEN w.obj.loop ELSE None
           marshal == w.outcome = "marshal"
           posted == marshal /\ loop # None /\ loopState[loop] # "closed"
           got == IF w.outcome = "body" THEN out
                  ELSE IF w.outcome = "RuntimeError" THEN Raises("RuntimeError")
                  ELSE IF loop = None THEN Raises("AttributeError")
                  ELSE IF loopState[loop] = "closed"
                       THEN Raises("RuntimeError")
                  ELSE NoOutcome
       IN  /\ (w.outcome = "body") <=> (out # NoOutcome)
           /\ objs' = [objs EXCEPT ![v.self] = w.obj]
           /\ ready' = IF posted
                       THEN [ready EXCEPT ![loop] =
                                call_soon_threadsafe(
                                    @, CallItem(IF coro THEN "coro"
                                                ELSE "callback", i, v, flag))]
                       ELSE ready
           /\ calls' = Append(calls,
                  [caller |-> t, slot |-> v, flag |-> flag,
                   owner |-> w.obj.thread, loop |-> loop,
                   running |-> loop # None /\ loopState[loop] = "running",
                   outcome |-> w.outcome,
                   state |-> IF ~posted THEN "done"
                             ELSE IF coro THEN "awaiting" ELSE "blocked",
                   body |-> IF w.outcome = "body" THEN Body(t, out)
                            ELSE NoBody,
                   future |-> Future,
                   got |-> got])
    /\ UNCHANGED <<loopState, owner, connections, em, emissions, log, removed,
                   last, from_emit, workerVars>>

\* Loop l runs the entry of a direct call at the head of its queue.
LoopRunCall(l, out) ==
    /\ loopState[l] = "running"
    /\ ready[l] # <<>>
    /\ ~(em.active /\ em.thread = l)
    /\ ~Blocked(l)
    /\ Head(ready[l]).type \in {"callback", "coro", "coro_task", "resume"}
    /\ LET h == Head(ready[l])
           i == h.eid
           runs_body == h.type \in {"callback", "coro_task"}
           resume == [h EXCEPT !.type = "resume"]
       IN  /\ runs_body <=> (out # NoOutcome)
           /\ calls' = [calls EXCEPT ![i] =
                  IF runs_body
                  THEN [@ EXCEPT !.body = Body(l, out),
                                 !.future = callback(@, out)]
                  ELSE IF h.type = "resume"
                       THEN [@ EXCEPT !.state = "done",
                                      !.got = future_result(calls[i].future)]
                       ELSE @]
           /\ ready' =
                  IF h.type = "coro"
                  THEN [ready EXCEPT ![l] =
                           Append(Tail(@), [h EXCEPT !.type = "coro_task"])]
                  ELSE IF h.type = "coro_task"
                       THEN [ready EXCEPT
                                ![l] = Tail(@),
                                ![calls[i].caller] =
                                    call_soon_threadsafe(@, resume)]
                       ELSE [ready EXCEPT ![l] = Tail(@)]
    /\ UNCHANGED <<objs, loopState, owner, connections, em, emissions, log,
                   removed, last, from_emit, workerVars>>

\* future.result() returns in the caller of direct call i, or raises.
FutureResult(i) ==
    /\ calls[i].state = "blocked"
    /\ calls[i].future.state = "FINISHED"
    /\ calls' = [calls EXCEPT ![i] =
                    [@ EXCEPT !.state = "done",
                              !.got = future_result(calls[i].future)]]
    /\ UNCHANGED <<signalVars, workerVars>>

\* ------------------------------------------------------------------ worker
\* Threads started by start() and the loops they create are numbered 1, 2,
\* ...; NoRun stands for None in the attributes that name them.
NoRun == 0

\* WorkerClass.__init__: the attributes of a worker that was never started.
\* stopping is the flag of the asyncio.Event _tsignal_stopping, waiters the
\* tasks waiting for it, stopping_loop the loop the event is bound to.
WorkerClass ==
    [loop |-> NoRun, thread |-> NoRun, stopping |-> FALSE,
     stopping_loop |-> NoRun, waiters |-> <<>>,
     process_queue_task |-> NoRun, task_queue |-> NoRun]

StopIdle == [pc |-> "idle", loop |-> NoRun, thread |-> NoRun, calls |-> 0]

\* No move_to_thread is running: the number of calls made so far, how the
\* last one ended ("returned", the exception raised, or None when there was
\* none) and the values it stored in the target's _tsignal_thread and
\* _tsignal_loop.
MoveIdle ==
    [pc |-> "idle", calls |-> 0, ended |-> None, thread |-> NoRun,
     loop |-> NoRun]

\* The arguments of start() and the entry coroutine of the class: run_coro
\* is absent, a coroutine object or something else; the `run` that
\* WorkerClass.run ends up running calls start_queue() or not (queue) and
\* then returns, raises or suspends until it is cancelled (end).  The
\* default entry, of a class that defines no `run`, starts the queue and
\* returns.
DefaultEntry == [run_coro |-> None, queue |-> TRUE, end |-> "return"]

StartArgs ==
    {[run_coro |-> None, queue |-> q, end |-> e] :
         q \in BOOLEAN, e \in {"return", "raise", "suspend"}}
    \cup {[run_coro |-> r, queue |-> FALSE, end |-> "return"] :
              r \in {"coroutine", "function"}}

\* asyncio.iscoroutine
iscoroutine(v) == v = "coroutine"

\* The state of a thread that start() has just started: the position of
\* thread_main (pc), its local variable `loop`, the ready queue of the loop
\* it creates and the thread that is running that loop (driver), and the
\* states of the tasks it creates: runner, the entry task (run_task) and the
\* queue processor (pq), with the cancellations requested of them and the
\* queued coroutine the processor is awaiting (pq_coro).  queue is the content
\* of the asyncio.Queue the thread creates, getters the processors waiting in
\* its get(), queue_loop the loop the queue is bound to, unfinished its
\* count of items put and not yet reported by task_done().
Run(a) ==
    [start |-> a, pc |-> "task_queue", loop |-> NoRun, ready |-> <<>>,
     driver |-> NoRun, runner |-> "none", run_task |-> "none",
     run_cancel |-> FALSE, pq |-> "none", pq_cancel |-> FALSE,
     pq_waiter |-> NoRun, pq_coro |-> NoRun, queue |-> <<>>,
     getters |-> <<>>, queue_loop |-> NoRun, unfinished |-> 0]

\* threading.Thread.is_alive() of the thread of run i.
is_alive(rs, i) == rs[i].pc # "dead"

\* The worker's state as one value, for the steps of its tasks.
WorkerState ==
    [worker |-> worker, runs |-> runs, events |-> events, tasks |-> tasks]

\* An entry of the history: the call or signal and the run it belongs to; for
\* task_begin and task_end, the number of the queued coroutine.
Event(ev, i) == [ev |-> ev, run |-> i]
Item(kind, i) == [kind |-> kind, run |-> i]

\* loop.call_soon(item) on the loop that run j created.
call_soon(s, j, item) == [s EXCEPT !.runs[j].ready = Append(@, item)]

\* self.started.emit() / self.stopped.emit() of run i.
signal_emit(s, sig, i) == [s EXCEPT !.events = Append(@, Event(sig, i))]

\* Task.cancel() of the entry task of run i: a task that has not finished is
\* marked, and one that is suspended is scheduled to receive CancelledError.
run_task_cancel(s, i) ==
    IF s.runs[i].run_task = "scheduled"
    THEN [s EXCEPT !.runs[i].run_cancel = TRUE]
    ELSE IF s.runs[i].run_task = "suspended"
         THEN call_soon([s EXCEPT !.runs[i].run_cancel = TRUE],
                        s.runs[i].loop, Item("run_task", i))
         ELSE s

\* Task.cancel() of the queue processor that run k created.
process_queue_task_cancel(s, k) ==
    IF s.runs[k].pq \in {"scheduled", "woken", "in_task"}
    THEN [s EXCEPT !.runs[k].pq_cancel = TRUE]
    ELSE IF s.runs[k].pq = "get"
         THEN call_soon([s EXCEPT !.runs[k].pq_cancel = TRUE],
                        s.runs[k].loop, Item("pq", k))
         ELSE s

\* runner, `finally` (decorators.py 190-194): stopped is emitted and the
\* task yields once.
runner_finally(s, i) ==
    call_soon([signal_emit(s, "stopped", i) EXCEPT !.runs[i].runner = "sleep0"],
              s.runs[i].loop, Item("runner", i))

\* runner, 177-188: the queue processor the attribute names, if it has not
\* finished, is cancelled and awaited; awaiting a task of another loop
\* raises RuntimeError.
runner_cancel_queue(s, i) ==
    LET k == s.worker.process_queue_task
    IN  IF k # NoRun /\ s.runs[k].pq \in {"scheduled", "get", "woken", "in_task"}
        THEN LET c == process_queue_task_cancel(s, k)
             IN  IF c.runs[k].loop = c.runs[i].loop
                 THEN [c EXCEPT !.runs[i].runner = "await_pq",
                                !.runs[k].pq_waiter = i]
                 ELSE runner_finally(c, i)
        ELSE runner_finally(s, i)

\* runner, 172-175: `await run_task` has a finished task: its exception, if
\* it is not CancelledError, leaves the `try`.
runner_after_run_task(s, i) ==
    IF s.runs[i].run_task = "raised" THEN runner_finally(s, i)
    ELSE runner_cancel_queue(s, i)

\* runner, 170-175: stopping.wait() has returned; the entry task is
\* cancelled and awaited.
runner_cancel_run_task(s, i) ==
    LET c == run_task_cancel(s, i)
    IN  IF c.runs[i].run_task \in {"done", "cancelled", "raised"}
        THEN runner_after_run_task(c, i)
        ELSE [c EXCEPT !.runs[i].runner = "await_run_task"]

\* runner, 168: `await self._tsignal_stopping.wait()`.  An event that is set
\* returns at once; otherwise the task waits, unless the event is bound to
\* another loop (RuntimeError).
runner_wait_stopping(s, i) ==
    IF s.worker.stopping THEN runner_cancel_run_task(s, i)
    ELSE IF s.worker.stopping_loop \notin {NoRun, s.runs[i].loop}
         THEN runner_finally(s, i)
         ELSE [s EXCEPT !.worker.stopping_loop = s.runs[i].loop,
                        !.worker.waiters = Append(@, i),
                        !.runs[i].runner = "wait_stopping"]

\* runner, 160-168: started is emitted and the entry task created; calling
\* the coroutine object run_coro raises TypeError outside the `try`.
runner_start(s, i) ==
    LET e == signal_emit(s, "started", i)
    IN  IF s.runs[i].start.run_coro # None
        THEN [e EXCEPT !.runs[i].runner = "failed"]
        ELSE runner_wait_stopping(
                 call_soon([e EXCEPT !.runs[i].run_task = "scheduled"],
                           s.runs[i].loop, Item("run_task", i)), i)

\* One step of the task of runner() of run i.
runner(s, i) ==
    LET at == s.runs[i].runner
    IN  IF at = "init" THEN runner_start(s, i)
        ELSE IF at = "wait_stopping" THEN runner_cancel_run_task(s, i)
        ELSE IF at = "await_run_task" THEN runner_after_run_task(s, i)
        ELSE IF at = "await_pq" THEN runner_finally(s, i)
        ELSE IF at = "sleep0" THEN [s EXCEPT !.runs[i].runner = "done"]
        ELSE s

\* start_queue (119-123), called by the entry task of run i.
start_queue(s, i) ==
    call_soon([s EXCEPT !.worker.process_queue_task = i,
                        !.runs[i].pq = "scheduled"],
              s.runs[i].loop, Item("pq", i))

\* The entry task of run i has finished in state st: the runner awaiting it
\* is scheduled.
run_task_done(s, i, st) ==
    LET d == [s EXCEPT !.runs[i].run_task = st]
    IN  IF s.runs[i].runner = "await_run_task"
        THEN call_soon(d, s.runs[i].loop, Item("runner", i))
        ELSE d

\* One step of the entry task of run i (WorkerClass.run, 77-102).
run(s, i) ==
    LET r == s.runs[i]
        q == IF r.start.queue THEN start_queue(s, i) ELSE s
    IN  IF r.run_cancel /\ r.run_task \in {"scheduled", "suspended"}
        THEN run_task_done(s, i, "cancelled")
        ELSE IF r.run_task = "scheduled"
             THEN IF r.start.end = "return" THEN run_task_done(q, i, "done")
                  ELSE IF r.start.end = "raise"
                       THEN run_task_done(q, i, "raised")
                       ELSE [q EXCEPT !.runs[i].run_task = "suspended"]
             ELSE s

\* The queue processor of run k has finished in state st.
process_queue_done(s, k, st) ==
    LET d == [s EXCEPT !.runs[k].pq = st]
        w == s.runs[k].pq_waiter
    IN  IF w # NoRun /\ s.runs[w].runner = "await_pq"
        THEN call_soon(d, s.runs[w].loop, Item("runner", w))
        ELSE d

\* A queued coroutine: what queue_task was given and how its body ends, the
\* loop the put was posted on, the queue it was put in, and how far it is;
\* history: whether the queue processor of that loop's run was active when
\* queue_task was called.
Task(b, loop, st) ==
    [body |-> b, loop |-> loop, queue |-> NoRun, state |-> st,
     active |-> loop # NoRun /\ runs[loop].pq \in {"scheduled", "get", "woken",
                                                  "in_task"}]

\* The bodies of the coroutines given to queue_task: each suspends once
\* (await asyncio.sleep) and then returns or raises an Exception.
TaskBodies == {"return", "raise"}

\* What queue_task is given: a coroutine object with one of the bodies, or a
\* plain function.
QueueArgs ==
    {[coro |-> "coroutine", body |-> b] : b \in TaskBodies}
    \cup {[coro |-> "function", body |-> "return"]}

\* put_nowait as a stack would do it: the item goes to the front.
put_nowait_front(s, c) ==
    LET q == s.worker.task_queue
        p == [s EXCEPT !.runs[q].queue = <<c>> \o @,
                       !.runs[q].unfinished = @ + 1,
                       !.tasks[c].queue = q,
                       !.tasks[c].state = "queued"]
        live == SelectSeq(s.runs[q].getters,
                          LAMBDA g : s.runs[g].pq = "get" /\ ~s.runs[g].pq_cancel)
    IN  IF live = <<>> THEN [p EXCEPT !.runs[q].getters = <<>>]
        ELSE call_soon([p EXCEPT !.runs[q].getters = Tail(live),
                                 !.runs[Head(live)].pq = "woken"],
                       s.runs[Head(live)].loop, Item("pq", Head(live)))

\* asyncio.Queue.put_nowait(coro) (137), the callback queue_task posts: the
\* queue is the one the attribute names when the callback runs; the first
\* processor still waiting in get() is scheduled.
put_nowait(s, c) ==
    LET q == s.worker.task_queue
        p == [s EXCEPT !.runs[q].queue = Append(@, c),
                       !.runs[q].unfinished = @ + 1,
                       !.tasks[c].queue = q,
                       !.tasks[c].state = "queued"]
        live == SelectSeq(s.runs[q].getters,
                          LAMBDA g : s.runs[g].pq = "get" /\ ~s.runs[g].pq_cancel)
    IN  IF live = <<>> THEN [p EXCEPT !.runs[q].getters = <<>>]
        ELSE call_soon([p EXCEPT !.runs[q].getters = Tail(live),
                                 !.runs[Head(live)].pq = "woken"],
                       s.runs[Head(live)].loop, Item("pq", Head(live)))

\* _process_queue, 107-109: `coro = await self._tsignal_task_queue.get()` and
\* the start of `await coro`.  An item that is there is taken and its body
\* runs up to its suspension; with an empty queue the task waits in get(),
\* unless the queue is bound to another loop (RuntimeError).
process_queue_get(s, k) ==
    LET q == s.worker.task_queue
    IN  IF s.runs[q].queue # <<>>
        THEN LET c == Head(s.runs[q].queue)
             IN  call_soon([s EXCEPT !.runs[q].queue = Tail(@),
                                     !.runs[k].pq = "in_task",
                                     !.runs[k].pq_coro = c,
                                     !.tasks[c].state = "running",
                                     !.events = Append(@, Event("task_begin", c))],
                           s.runs[k].loop, Item("pq", k))
        ELSE IF s.runs[q].queue_loop \notin {NoRun, s.runs[k].loop}
             THEN process_queue_done(s, k, "raised")
             ELSE [s EXCEPT !.runs[q].queue_loop = s.runs[k].loop,
                            !.runs[q].getters = Append(@, k),
                            !.runs[k].pq = "get"]

\* _process_queue, 106: `while not self._tsignal_stopping.is_set()`.
process_queue_while(s, k) ==
    IF s.worker.stopping THEN process_queue_done(s, k, "done")
    ELSE process_queue_get(s, k)

\* _process_queue, 110-117: the awaited coroutine has ended in state st
\* (CancelledError included); task_done() of the queue the attribute names
\* raises ValueError when that queue has no unfinished item.
process_queue_finally(s, k, st) ==
    LET q == s.worker.task_queue
        c == s.runs[k].pq_coro
        e == [s EXCEPT !.tasks[c].state = st,
                       !.runs[k].pq_coro = NoRun,
                       !.events = Append(@, Event("task_end", c))]
    IN  IF e.runs[q].unfinished = 0 THEN process_queue_done(e, k, "raised")
        ELSE LET d == [e EXCEPT !.runs[q].unfinished = @ - 1]
             IN  IF st = "cancelled" THEN process_queue_done(d, k, "cancelled")
                 ELSE process_queue_while(d, k)

\* _process_queue without its `except`: the exception of the queued coroutine
\* ends the processor.
process_queue_propagate(s, k) ==
    LET q == s.worker.task_queue
        c == s.runs[k].pq_coro
    IN  process_queue_done([s EXCEPT !.tasks[c].state = "failed",
                                     !.runs[k].pq_coro = NoRun,
                                     !.runs[q].unfinished = @ - 1,
                                     !.events = Append(@, Event("task_end", c))],
                           k, "raised")

\* `except Exception` of _process_queue (110-115): the exception of a queued
\* coroutine is logged and the loop goes on.
process_queue_except(s, k) == process_queue_finally(s, k, "failed")

\* One step of the task of _process_queue (104-117) of run k.
process_queue(s, k) ==
    LET r == s.runs[k]
    IN  IF r.pq_cancel /\ r.pq = "in_task"
        THEN process_queue_finally(s, k, "cancelled")
        ELSE IF r.pq_cancel /\ r.pq \in {"scheduled", "get", "woken"}
        THEN process_queue_done(s, k, "cancelled")
        ELSE IF r.pq = "scheduled" THEN process_queue_while(s, k)
        ELSE IF r.pq = "woken" THEN process_queue_get(s, k)
        ELSE IF r.pq = "in_task"
        THEN IF s.tasks[r.pq_coro].body = "raise"
             THEN process_queue_except(s, k)
             ELSE process_queue_finally(s, k, "done")
        ELSE s

\* The tasks waiting for the event are scheduled, in the order they waited.
RECURSIVE wake(_, _)
wake(s, ws) ==
    IF ws = <<>> THEN s
    ELSE wake(call_soon(s, s.runs[Head(ws)].loop, Item("runner", Head(ws))),
              Tail(ws))

\* asyncio.Event.set(), the callback stop() posts.
stopping_set(s) ==
    IF s.worker.stopping THEN s
    ELSE wake([s EXCEPT !.worker.stopping = TRUE, !.worker.waiters = <<>>],
              s.worker.waiters)

\* start(run_coro=...) (139-211): a thread is created, stored and started.
Start(a) ==
    /\ stopper.pc = "idle"
    /\ Len(runs) < MaxStarts
    /\ a.run_coro = None \/ iscoroutine(a.run_coro)
    /\ runs' = Append(runs, Run(a))
    /\ worker' = [worker EXCEPT !.thread = Len(runs) + 1]
    /\ events' = Append(events, Event("start", Len(runs) + 1))
    /\ UNCHANGED <<signalVars, calls, stopper, tasks, mover>>

\* Mutant of ThreadMain: the loop is published first and the queue created
\* afterwards.
ThreadMain_publish_first(i) ==
    /\ runs[i].pc \in {"task_queue", "publish", "read_loop", "create_task"}
    /\ LET pc == runs[i].pc
           loop == runs[i].loop
       IN  IF pc = "task_queue"
           THEN /\ worker' = [worker EXCEPT !.loop = i]
                /\ runs' = [runs EXCEPT ![i].pc = "publish"]
           ELSE IF pc = "publish"
           THEN /\ worker' = [worker EXCEPT !.task_queue = i]
                /\ runs' = [runs EXCEPT ![i].pc = "read_loop"]
           ELSE IF pc = "read_loop"
           THEN /\ worker' = worker
                /\ runs' = [runs EXCEPT ![i].pc = "create_task",
                                        ![i].loop = worker.loop]
           ELSE /\ worker' = worker
                /\ runs' =
                       IF loop = NoRun
                       THEN [runs EXCEPT ![i].pc = "dead"]
                       ELSE IF runs[loop].driver # NoRun
                       THEN [runs EXCEPT ![i].pc = "dead",
                                         ![i].runner = "init",
                                         ![loop].ready =
                                             Append(@, Item("runner", i))]
                       ELSE [runs EXCEPT ![i].pc = "run_forever",
                                         ![i].runner = "init",
                                         ![loop].ready =
                                             Append(@, Item("runner", i)),
                                         ![loop].driver = i]
    /\ UNCHANGED <<signalVars, calls, stopper, events, tasks, mover>>

\* thread_main (150-200) of run i up to run_forever, one statement at a time:
\* the queue is created, the loop is created and published, the attribute is
\* read back, the runner task is created and the loop entered.
ThreadMain(i) ==
    /\ runs[i].pc \in {"task_queue", "publish", "read_loop", "create_task"}
    /\ LET pc == runs[i].pc
           loop == runs[i].loop
       IN  IF pc = "task_queue"
           THEN /\ worker' = [worker EXCEPT !.task_queue = i]
                /\ runs' = [runs EXCEPT ![i].pc = "publish"]
           ELSE IF pc = "publish"
           THEN /\ worker' = [worker EXCEPT !.loop = i]
                /\ runs' = [runs EXCEPT ![i].pc = "read_loop"]
           ELSE IF pc = "read_loop"
           THEN /\ worker' = worker
                /\ runs' = [runs EXCEPT ![i].pc = "create_task",
                                        ![i].loop = worker.loop]
           ELSE /\ worker' = worker
                /\ runs' =
                       IF loop = NoRun
                       THEN [runs EXCEPT ![i].pc = "dead"]
                       ELSE IF runs[loop].driver # NoRun
                       THEN [runs EXCEPT ![i].pc = "dead",
                                         ![i].runner = "init",
                                         ![loop].ready =
                                             Append(@, Item("runner", i))]
                       ELSE [runs EXCEPT ![i].pc = "run_forever",
                                         ![i].runner = "init",
                                         ![loop].ready =
                                             Append(@, Item("runner", i)),
                                         ![loop].driver = i]
    /\ UNCHANGED <<signalVars, calls, stopper, events, tasks, mover>>

\* loop.run_forever() (200) in the thread of run i: the loop runs the
\* callback at the head of its ready queue.
RunForever(i) ==
    /\ runs[i].pc = "run_forever"
    /\ runs[runs[i].loop].ready # <<>>
    /\ LET j == runs[i].loop
           h == Head(runs[j].ready)
           s == [WorkerState EXCEPT !.runs[j].ready = Tail(@)]
           t == IF h.kind = "runner" THEN runner(s, h.run)
                ELSE IF h.kind = "run_task" THEN run(s, h.run)
                ELSE IF h.kind = "pq" THEN process_queue(s, h.run)
                ELSE IF h.kind = "put" THEN put_nowait(s, h.run)
                ELSE stopping_set(s)
       IN  /\ worker' = t.worker
           /\ runs' = t.runs
           /\ events' = t.events
           /\ tasks' = t.tasks
    /\ UNCHANGED <<signalVars, calls, stopper, mover>>

\* queue_task(coro) (125-137), called by the thread that calls start() and
\* stop(): something that is no coroutine object is logged and dropped; the
\* loop is read under the lock and the put posted on it, which fails with
\* AttributeError when the attribute is None.
QueueTask(b) ==
    /\ stopper.pc = "idle"
    /\ Len(tasks) < MaxTasks
    /\ LET c == Len(tasks) + 1
           loop == worker.loop
       IN  IF ~iscoroutine(b.coro)
           THEN /\ tasks' = Append(tasks, Task(b.body, NoRun, "rejected"))
                /\ runs' = runs
           ELSE IF loop = NoRun
           THEN /\ tasks' = Append(tasks, Task(b.body, NoRun, "AttributeError"))
                /\ runs' = runs
           ELSE /\ tasks' = Append(tasks, Task(b.body, loop, "posted"))
                /\ runs' = [runs EXCEPT ![loop].ready = Append(@, Item("put", c))]
    /\ UNCHANGED <<signalVars, calls, worker, stopper, events, mover>>

\* stop() (213-223): the attributes are read under the lock and tested.
StopRead ==
    /\ stopper.pc = "idle"
    /\ stopper.calls < MaxStops
    /\ LET go == /\ worker.loop # NoRun
                 /\ worker.thread # NoRun
                 /\ is_alive(runs, worker.thread)
       IN  /\ stopper' = IF go
                         THEN [pc |-> "call_soon", loop |-> worker.loop,
                               thread |-> worker.thread,
                               calls |-> stopper.calls + 1]
                         ELSE [stopper EXCEPT !.calls = @ + 1]
           /\ events' = IF go THEN Append(events, Event("stop", worker.thread))
                        ELSE Append(Append(events, Event("stop", NoRun)),
                                    Event("stop_returned", NoRun))
    /\ UNCHANGED <<signalVars, calls, worker, runs, tasks, mover>>

\* stop() (225): loop.call_soon_threadsafe(self._tsignal_stopping.set).
StopPost ==
    /\ stopper.pc = "call_soon"
    /\ runs' = [runs EXCEPT ![stopper.loop].ready =
                   Append(@, Item("stopping.set", NoRun))]
    /\ stopper' = [stopper EXCEPT !.pc = "join"]
    /\ UNCHANGED <<signalVars, calls, worker, events, tasks, mover>>

\* stop() returning without clearing the two attributes.
StopClear_keep ==
    /\ stopper.pc = "join"
    /\ worker' = worker
    /\ stopper' = [StopIdle EXCEPT !.calls = stopper.calls]
    /\ events' = Append(events, Event("stop_returned", stopper.thread))
    /\ UNCHANGED <<signalVars, calls, runs, tasks, mover>>

\* stop() (227-232): thread.join(timeout=2) returns, because the thread has
\* ended or because the time is up, and both attributes are cleared.
StopClear ==
    /\ stopper.pc = "join"
    /\ worker' = [worker EXCEPT !.loop = NoRun, !.thread = NoRun]
    /\ stopper' = [StopIdle EXCEPT !.calls = stopper.calls]
    /\ events' = Append(events, Event("stop_returned", stopper.thread))
    /\ UNCHANGED <<signalVars, calls, runs, tasks, mover>>

\* ---------------------------------------------------------- move_to_thread
\* move_to_thread copying thread and loop and leaving the target's token.
move_to_thread_keep_token(w, target) ==
    IF w.thread = None \/ w.loop = None
    THEN [raised |-> "RuntimeError", target |-> target]
    ELSE IF ~target.hasThread \/ ~target.hasLoop
    THEN [raised |-> "TypeError", target |-> target]
    ELSE [raised |-> None,
          target |-> [hasThread |-> TRUE, thread |-> w.thread,
                      hasLoop |-> TRUE, loop |-> w.loop,
                      hasAffinity |-> target.hasAffinity,
                      affinity |-> target.affinity]]

\* move_to_thread copying the attributes before it checks anything.
move_to_thread_copy_first(w, target) ==
    [raised |-> IF w.thread = None \/ w.loop = None THEN "RuntimeError"
                ELSE IF ~target.hasThread \/ ~target.hasLoop THEN "TypeError"
                ELSE None,
     target |-> [hasThread |-> TRUE, thread |-> w.thread,
                 hasLoop |-> TRUE, loop |-> w.loop,
                 hasAffinity |-> TRUE, affinity |-> w.affinity]]

\* move_to_thread (234-267) of a worker with the attributes w, on a target
\* with the attributes `target`: the exception raised, if any, and the
\* target's attributes afterwards.
move_to_thread(w, target) ==
    IF w.thread = None \/ w.loop = None
    THEN [raised |-> "RuntimeError", target |-> target]
    ELSE IF ~target.hasThread \/ ~target.hasLoop
    THEN [raised |-> "TypeError", target |-> target]
    ELSE [raised |-> None,
          target |-> [hasThread |-> TRUE, thread |-> w.thread,
                      hasLoop |-> TRUE, loop |-> w.loop,
                      hasAffinity |-> TRUE, affinity |-> w.affinity]]

\* W.move_to_thread(target), called between emissions.
MoveToThread(target) ==
    /\ ~em.active
    /\ LET r == move_to_thread(objs["W"], objs[target])
       IN  /\ objs' = [objs EXCEPT ![target] = r.target]
           /\ last' = Call("move_to_thread", target, NoneVal, r.raised, 0)
    /\ UNCHANGED <<loopState, ready, owner, connections, em, emissions, log,
                   removed, from_emit>>
    /\ UNCHANGED <<calls, workerVars>>

\* ------------------------------------------------------------ specification
Init ==
    /\ objs = [o \in Objects |->
                  IF o = "P" THEN PlainObject
                  ELSE IF o = "W" THEN IdleWorker
                  ELSE IF o = "R2" THEN t_with_signals("T2")
                  ELSE t_with_signals("T1")]
    /\ loopState = [l \in Loops |-> "running"]
    /\ ready = [l \in Loops |-> <<>>]
    /\ owner = "S"
    /\ connections = <<>>
    /\ em = EmIdle
    /\ emissions = <<>>
    /\ log = <<>>
    /\ removed = {}
    /\ last = Call("init", None, NoneVal, 0, 0)
    /\ from_emit = [t \in Threads |-> FALSE]
    /\ calls = <<>>
    /\ worker = WorkerClass
    /\ runs = <<>>
    /\ stopper = StopIdle
    /\ events = <<>>
    /\ tasks = <<>>
    /\ mover = MoveIdle

Next ==
    \/ \E a \in ConnectArgs : Connect(a)
    \/ \E a \in DisconnectArgs : Disconnect(a.receiver, a.slot)
    \/ \E t \in {"T1", "T3"}, arg \in Args : EmitStart(t, arg)
    \/ \E b \in Behaviours : EmitStep(b)
    \/ EmitEnd
    \/ \E l \in Loops, b \in Behaviours : LoopRun(l, b)

Spec == Init /\ [][Next]_vars

\* Direct calls of member slots, alone and from the slots of an emission of
\* a signal with an Auto connection to R1 and one to R2.
InitCall ==
    /\ objs = [o \in Objects |->
                  IF o = "P" THEN PlainObject
                  ELSE IF o = "W" THEN IdleWorker
                  ELSE IF o = "R2" THEN t_with_signals("T2")
                  ELSE t_with_signals("T1")]
    /\ loopState \in {[l \in Loops |-> IF l = "T1" THEN "running" ELSE st] :
                          st \in {"running", "stopped", "closed"}}
    /\ ready = [l \in Loops |-> <<>>]
    /\ owner = "S"
    /\ connections =
           connect(connect(<<>>, Val("R1", "on_sync"), NoneVal,
                           AUTO_CONNECTION).connections,
                   Val("R2", "on_sync"), NoneVal, AUTO_CONNECTION).connections
    /\ em = EmIdle
    /\ emissions = <<>>
    /\ log = <<>>
    /\ removed = {}
    /\ last = Call("init", None, NoneVal, 0, 0)
    /\ from_emit = [t \in Threads |-> FALSE]
    /\ calls = <<>>
    /\ worker = WorkerClass
    /\ runs = <<>>
    /\ stopper = StopIdle
    /\ events = <<>>
    /\ tasks = <<>>
    /\ mover = MoveIdle

NextCall ==
    \/ \E t \in {"T1", "T3"}, arg \in Args : EmitStart(t, arg)
    \/ \E b \in {"return", "raise"} : EmitStep(b)
    \/ EmitEnd
    \/ \E l \in Loops, b \in {"return", "raise"} : LoopRun(l, b)
    \/ \E t \in Threads, v \in CallTargets, out \in Outcomes \cup {NoOutcome} :
           DirectCall(t, v, out)
    \/ \E l \in Loops, out \in Outcomes \cup {NoOutcome} : LoopRunCall(l, out)
    \/ \E i \in DOMAIN calls : FutureResult(i)

SpecCall == InitCall /\ [][NextCall]_vars

\* The worker: one driver thread calls start(), once, and stop(); the thread
\* start() creates runs thread_main.
NextWorker ==
    \/ \E a \in StartArgs : runs = <<>> /\ Start(a)
    \/ \E i \in DOMAIN runs : ThreadMain(i)
    \/ \E i \in DOMAIN runs : RunForever(i)
    \/ StopRead
    \/ StopPost
    \/ StopClear

SpecWorker == Init /\ [][NextWorker]_vars

\* The worker of a class with the default entry, and its task queue: one
\* driver thread calls start(), once, queue_task() and stop().
NextQueue ==
    \/ runs = <<>> /\ Start(DefaultEntry)
    \/ \E i \in DOMAIN runs : ThreadMain(i)
    \/ \E i \in DOMAIN runs : RunForever(i)
    \/ \E b \in QueueArgs : QueueTask(b)
    \/ StopRead
    \/ StopPost
    \/ StopClear

SpecQueue == Init /\ [][NextQueue]_vars

\* The same worker when the driver thread calls start() again and never
\* stop(), with queued coroutines that return.
NextRestart ==
    \/ Start(DefaultEntry)
    \/ \E i \in DOMAIN runs : ThreadMain(i)
    \/ \E i \in DOMAIN runs : RunForever(i)
    \/ \E b \in QueueArgs : b.body = "return" /\ QueueTask(b)

SpecRestart == Init /\ [][NextRestart]_vars

\* connect with arguments of every sort, on a signal that is not emitting.
NextConnect == \E a \in AnyConnectArgs : ConnectAny(a)

SpecConnect == Init /\ [][NextConnect]_vars

\* One thread (T1, or T3 which has no loop) emits 0, 1, 2 over a connection
\* to a slot of R2, whose loop is T2: an Auto connection, which is Queued
\* because S and R2 carry different tokens, or a Queued one.
InitOrder ==
    /\ objs = [o \in Objects |->
                  IF o = "P" THEN PlainObject
                  ELSE IF o = "W" THEN IdleWorker
                  ELSE IF o = "R2" THEN t_with_signals("T2")
                  ELSE t_with_signals("T1")]
    /\ loopState = [l \in Loops |-> "running"]
    /\ ready = [l \in Loops |-> <<>>]
    /\ owner = "S"
    /\ connections \in
           {connect(<<>>, Val("R2", f), NoneVal, k).connections :
                f \in Funcs, k \in {AUTO_CONNECTION, QUEUED_CONNECTION}}
    /\ em = EmIdle
    /\ emissions = <<>>
    /\ log = <<>>
    /\ removed = {}
    /\ last = Call("init", None, NoneVal, 0, 0)
    /\ from_emit = [t \in Threads |-> FALSE]
    /\ calls = <<>>
    /\ worker = WorkerClass
    /\ runs = <<>>
    /\ stopper = StopIdle
    /\ events = <<>>
    /\ tasks = <<>>
    /\ mover = MoveIdle

NextOrder ==
    \/ \E t \in {"T1", "T3"}, arg \in 0 .. MaxQueued - 1 :
           (emissions # <<>> => t = emissions[1].thread) /\ EmitStart(t, arg)
    \/ EmitStep("return")
    \/ EmitEnd
    \/ \E l \in Loops, b \in {"return", "raise"} : LoopRun(l, b)

SpecOrder == InitOrder /\ [][NextOrder]_vars

\* Moving objects to a worker.  W was never started, is starting or runs its
\* loop on T2; R1 carries the attributes of t_with_signals or those of a lazy
\* initialisation; the signal belongs to S, to R1 or to W and has one Auto
\* connection, made before any move, to a synchronous slot of R1, R2, W or P.
MoveTargets == {"R1", "P"}

MoveConnectArgs ==
    {[ros |-> Val(o, "on_sync"), slot |-> NoneVal, kind |-> AUTO_CONNECTION] :
         o \in {"R1", "R2", "W", "P"}}

InitMove ==
    /\ \E a \in {t_with_signals("T1"), LazyObject},
          w \in {IdleWorker, StartingWorker, MovedObject} :
           objs = [o \in Objects |->
                      IF o = "R1" THEN a
                      ELSE IF o = "W" THEN w
                      ELSE IF o = "P" THEN PlainObject
                      ELSE IF o = "R2" THEN t_with_signals("T2")
                      ELSE t_with_signals("T1")]
    /\ loopState = [l \in Loops |-> "running"]
    /\ ready = [l \in Loops |-> <<>>]
    /\ owner \in {"S", "R1", "W"}
    /\ connections \in
           {connect(<<>>, a.ros, a.slot, a.kind).connections :
                a \in MoveConnectArgs}
    /\ em = EmIdle
    /\ emissions = <<>>
    /\ log = <<>>
    /\ removed = {}
    /\ last = Call("init", None, NoneVal, 0, 0)
    /\ from_emit = [t \in Threads |-> FALSE]
    /\ calls = <<>>
    /\ worker = WorkerClass
    /\ runs = <<>>
    /\ stopper = StopIdle
    /\ events = <<>>
    /\ tasks = <<>>
    /\ mover = MoveIdle

NextMove ==
    \/ \E target \in MoveTargets : MoveToThread(target)
    \/ \E a \in MoveConnectArgs : Connect(a)
    \/ \E t \in Threads, arg \in Args : EmitStart(t, arg)
    \/ \E b \in {"return", "raise"} : EmitStep(b)
    \/ EmitEnd
    \/ \E l \in Loops, b \in {"return", "raise"} : LoopRun(l, b)

SpecMove == InitMove /\ [][NextMove]_vars

\* Construction of signal-aware objects on threads with and without a running
\* loop, with and without the decorator's loop argument; T3 never has a loop
\* and the loop of T2 may be stopped or closed.
InitConstruct ==
    /\ objs = [o \in Objects |-> IF o = "W" THEN IdleWorker ELSE PlainObject]
    /\ loopState \in {[l \in Loops |-> IF l = "T1" THEN "running" ELSE st] :
                          st \in {"running", "stopped", "closed"}}
    /\ ready = [l \in Loops |-> <<>>]
    /\ owner = "S"
    /\ connections = <<>>
    /\ em = EmIdle
    /\ emissions = <<>>
    /\ log = <<>>
    /\ removed = {}
    /\ last = Call("init", None, NoneVal, 0, 0)
    /\ from_emit = [t \in Threads |-> FALSE]
    /\ calls = <<>>
    /\ worker = WorkerClass
    /\ runs = <<>>
    /\ stopper = StopIdle
    /\ events = <<>>
    /\ tasks = <<>>
    /\ mover = MoveIdle

NextConstruct ==
    \E o \in ConstructTargets, t \in Threads, loop \in Loops \cup {None} :
        Construct(o, t, loop)

SpecConstruct == InitConstruct /\ [][NextConstruct]_vars

\* The connection list under connect and disconnect in all their forms: a
\* function and a method of the plain object P passed alone (they are
\* wrapped), a method of R1 passed alone, the function connected with the
\* receiver R1, and the method of R1 connected with the receiver R2.
ListConnectArgs ==
    {[ros |-> Val(None, "on_sync"), slot |-> NoneVal,
      kind |-> AUTO_CONNECTION],
     [ros |-> Val("P", "on_sync"), slot |-> NoneVal,
      kind |-> AUTO_CONNECTION],
     [ros |-> Val("R1", "on_sync"), slot |-> NoneVal,
      kind |-> QUEUED_CONNECTION],
     [ros |-> Val("R1", None), slot |-> Val(None, "on_sync"),
      kind |-> AUTO_CONNECTION],
     [ros |-> Val("R2", None), slot |-> Val("R1", "on_sync"),
      kind |-> DIRECT_CONNECTION]}

\* The callables user code passes to disconnect as `slot`.
ListSlots ==
    {Val(None, "on_sync"), Val("P", "on_sync"), Val("R1", "on_sync")}

ListDisconnectArgs ==
    {[receiver |-> r, slot |-> sl] :
         r \in {None, "R1"}, sl \in ListSlots \cup {NoneVal}}

NextList ==
    \/ \E a \in ListConnectArgs : Connect(a)
    \/ \E a \in ListDisconnectArgs : Disconnect(a.receiver, a.slot)
    \/ \E arg \in Args : EmitStart("T1", arg)
    \/ EmitStep("return")
    \/ EmitEnd
    \/ \E l \in Loops : LoopRun(l, "return")

SpecList == Init /\ [][NextList]_vars

\* Emissions towards targets that may be unavailable.  The receiver R1 has
\* a running or halted loop (T2), a loop attribute that is None, or no
\* attribute at all; the signal holds MaxConns connections, each one of: the
\* slot of R1 connected Queued, a function connected Queued (no receiver),
\* the slot of R2 (Queued in effect under Auto, loop T2), a function under
\* Auto (Direct in effect) and an `async def` function (Queued in effect, no
\* receiver); emit is called on T1, whose loop runs, or on T3, which has none.
TargetRecords ==
    {t_with_signals("T2"), MovedObject, IdleWorker, PlainObject}

TargetConnectArgs ==
    {[ros |-> Val("R1", None), slot |-> Val("R1", "on_sync"),
      kind |-> QUEUED_CONNECTION],
     [ros |-> Val(None, "on_sync"), slot |-> NoneVal,
      kind |-> QUEUED_CONNECTION],
     [ros |-> Val("R2", "on_sync"), slot |-> NoneVal,
      kind |-> AUTO_CONNECTION],
     [ros |-> Val(None, "on_sync"), slot |-> NoneVal,
      kind |-> AUTO_CONNECTION],
     [ros |-> Val(None, "on_async"), slot |-> NoneVal,
      kind |-> AUTO_CONNECTION]}

\* The list after connect was called with each element of `args` in turn.
RECURSIVE ConnectAll(_)
ConnectAll(args) ==
    IF args = <<>> THEN <<>>
    ELSE LET a == args[Len(args)]
         IN  connect(ConnectAll(SubSeq(args, 1, Len(args) - 1)),
                     a.ros, a.slot, a.kind).connections

InitTarget ==
    /\ \E b \in TargetRecords :
           objs = [o \in Objects |->
                      IF o = "R1" THEN b
                      ELSE IF o = "R2" THEN t_with_signals("T2")
                      ELSE IF o = "W" THEN IdleWorker
                      ELSE IF o = "P" THEN PlainObject
                      ELSE t_with_signals("T1")]
    /\ loopState \in {[l \in Loops |-> IF l = "T1" THEN "running" ELSE st] :
                          st \in {"running", "stopped", "closed"}}
    /\ ready = [l \in Loops |-> <<>>]
    /\ owner = "S"
    /\ \E args \in [1 .. MaxConns -> TargetConnectArgs] :
           connections = ConnectAll(args)
    /\ em = EmIdle
    /\ emissions = <<>>
    /\ log = <<>>
    /\ removed = {}
    /\ last = Call("init", None, NoneVal, 0, 0)
    /\ from_emit = [t \in Threads |-> FALSE]
    /\ calls = <<>>
    /\ worker = WorkerClass
    /\ runs = <<>>
    /\ stopper = StopIdle
    /\ events = <<>>
    /\ tasks = <<>>
    /\ mover = MoveIdle

NextTarget ==
    \/ \E t \in {"T1", "T3"}, arg \in Args : EmitStart(t, arg)
    \/ \E b \in {"return", "raise"} : EmitStep(b)
    \/ EmitEnd
    \/ \E l \in Loops, b \in {"return", "raise"} : LoopRun(l, b)

SpecTarget == InitTarget /\ [][NextTarget]_vars

\* emit called from a context in which _tsignal_from_emit is already set
\* (the caller is a slot another emission is running, or a task a queued
\* dispatch made) or is not: the signal holds an Auto connection to the slot
\* of R1 (Direct in effect), one to the slot of R2 (Queued in effect) and one
\* to a function; the slots return, raise or disconnect.
InitFlag ==
    /\ objs = [o \in Objects |->
                  IF o = "P" THEN PlainObject
                  ELSE IF o = "W" THEN IdleWorker
                  ELSE IF o = "R2" THEN t_with_signals("T2")
                  ELSE t_with_signals("T1")]
    /\ loopState = [l \in Loops |-> "running"]
    /\ ready = [l \in Loops |-> <<>>]
    /\ owner = "S"
    /\ connections =
           connect(
               connect(connect(<<>>, Val("R1", "on_sync"), NoneVal,
                               AUTO_CONNECTION).connections,
                       Val("R2", "on_sync"), NoneVal,
                       AUTO_CONNECTION).connections,
               Val(None, "on_sync"), NoneVal, AUTO_CONNECTION).connections
    /\ em = EmIdle
    /\ emissions = <<>>
    /\ log = <<>>
    /\ removed = {}
    /\ last = Call("init", None, NoneVal, 0, 0)
    /\ from_emit \in [Threads -> BOOLEAN]
    /\ calls = <<>>
    /\ worker = WorkerClass
    /\ runs = <<>>
    /\ stopper = StopIdle
    /\ events = <<>>
    /\ tasks = <<>>
    /\ mover = MoveIdle

NextFlag ==
    \/ \E t \in {"T1", "T3"}, arg \in Args : EmitStart(t, arg)
    \/ \E b \in Behaviours : EmitStep(b)
    \/ EmitEnd
    \/ \E l \in Loops, b \in {"return", "raise"} : LoopRun(l, b)

SpecFlag == InitFlag /\ [][NextFlag]_vars

\* ------------------------------------------------------- history, read back
Emissions == DOMAIN emissions

\* emit call e has returned and every closure it posted has run.
Finished(e) == emissions[e].result # "running"

Pending(e) ==
    \E l \in Loops : \E k \in DOMAIN ready[l] : ready[l][k].eid = e

Quiet(e) == Finished(e) /\ ~Pending(e)

\* The log entries of the slot bodies run for position p of emission e.
Runs(e, p) == {k \in DOMAIN log : log[k].eid = e /\ log[k].pos = p}

\* emission e dispatched position p (its loop reached it).
Dispatched(e, p) == p \in 1 .. Len(emissions[e].trace)

\* A slot of emission e called disconnect() with no arguments.
Cleared(e) ==
    \E k \in DOMAIN log : log[k].eid = e /\ log[k].beh = "disconnect"

\* A slot of emission e called disconnect, with or without arguments.
Disconnecting(e) ==
    \E k \in DOMAIN log :
        log[k].eid = e /\ log[k].beh \in {"disconnect", "disconnect_self"}

\* ---------------------------------------------------------------- claim C1
\* C1 as stated: once an emit call has returned and the loops have run what
\* it posted, every connection that was in the list when emit was called has
\* had its slot body executed exactly once, with the emitted argument.
\* (Emissions in which a slot disconnects are the matter of C4 and are left
\* out here.)
C1_ExactlyOnceEveryKind ==
    \A e \in Emissions :
        (Quiet(e) /\ ~Disconnecting(e)) =>
            \A p \in 1 .. Len(emissions[e].start) :
                /\ Cardinality(Runs(e, p)) = 1
                /\ \A k \in Runs(e, p) : log[k].arg = emissions[e].arg

\* The number of times the body of connection c runs, given what emit's
\* dispatch x of it did: once for a synchronous slot called directly and for
\* a closure posted to a running loop; never for a coroutine function called
\* directly (the coroutine object is dropped), for a queued connection whose
\* loop is missing or not running, or when the call raised before the body.
C1_Expected(x, c) ==
    IF x.kind = DIRECT_CONNECTION
    THEN IF c.is_coro_slot \/ x.outcome = "RuntimeError" THEN 0 ELSE 1
    ELSE IF x.outcome = "posted" THEN 1 ELSE 0

\* C1 (amended): every connection emit's loop dispatches - all those in the
\* list when emit was called, unless a slot of this emission cleared the list
\* with disconnect() - has its body run at most once, always with the emitted
\* argument; exactly once if it is dispatched Direct with a synchronous slot
\* or Queued onto a running loop (once that loop has run the closure), and
\* never if it is a suspending slot dispatched Direct or a Queued connection
\* without a running loop.
C1_ExactlyOnceWhereDispatched ==
    \A e \in Emissions :
        LET E == emissions[e]
        IN  /\ \A k \in DOMAIN log :
                   log[k].eid = e =>
                       /\ log[k].arg = E.arg
                       /\ Dispatched(e, log[k].pos)
                       /\ log[k].pos <= Len(E.start)
                       /\ log[k].conn = E.start[log[k].pos]
            /\ \A p \in 1 .. Len(E.trace) :
                   /\ E.trace[p].pos = p
                   /\ Cardinality(Runs(e, p)) <= 1
            /\ Len(E.trace) <= Len(E.start)
            /\ (Finished(e) /\ ~Cleared(e)) => Len(E.trace) = Len(E.start)
            /\ Quiet(e) =>
                   \A p \in 1 .. Len(E.trace) :
                       Cardinality(Runs(e, p))
                           = C1_Expected(E.trace[p], E.start[p])

\* An emission of three connections, one run directly and one through a
\* loop, has returned and been delivered.
C1_Witness ==
    \E e \in Emissions :
        /\ Quiet(e)
        /\ Len(emissions[e].start) = 3
        /\ Len(emissions[e].trace) = 3
        /\ \E p, q \in 1 .. 3 :
               /\ emissions[e].trace[p].kind = DIRECT_CONNECTION
               /\ emissions[e].trace[q].kind = QUEUED_CONNECTION
               /\ Cardinality(Runs(e, p)) = 1
               /\ Cardinality(Runs(e, q)) = 1

\* ---------------------------------------------------------------- claim C2
\* C2 as stated: within one emit, if connection p comes before connection q
\* in the list, the body of p's slot starts before the body of q's, whatever
\* their effective kinds and whether the slots are synchronous or suspending.
C2_BodiesInInsertionOrder ==
    \A e \in Emissions :
        ~Disconnecting(e) =>
        \A p, q \in 1 .. Len(emissions[e].trace) :
            p < q => \A k \in Runs(e, p), m \in Runs(e, q) : k < m

\* C2 (amended): within one emit, connections are dispatched in insertion
\* order, and the body of p starts before the body of a later q whenever p is
\* dispatched Direct, or both are dispatched Queued onto the same loop and p
\* is synchronous or q is suspending.  (A Queued p may start after a later
\* Direct q, after a q queued on another loop, and - when p is suspending -
\* after a later synchronous q queued on the same loop.)
C2_OrderWhereComparable ==
    \A e \in Emissions :
        LET E == emissions[e]
        IN  \A p, q \in 1 .. Len(E.trace) :
                /\ E.trace[p].pos = p
                /\ p < q =>
                       \A k \in Runs(e, p), m \in Runs(e, q) :
                           (\/ E.trace[p].kind = DIRECT_CONNECTION
                            \/ /\ E.trace[p].kind = QUEUED_CONNECTION
                               /\ E.trace[q].kind = QUEUED_CONNECTION
                               /\ log[k].thread = log[m].thread
                               /\ (~E.start[p].is_coro_slot
                                   \/ E.start[q].is_coro_slot))
                           => k < m

\* Two different slots queued onto the same loop by one emit have both run,
\* after a slot that was called directly.
C2_Witness ==
    \E e \in Emissions :
        /\ Quiet(e)
        /\ Len(emissions[e].trace) = 3
        /\ emissions[e].trace[1].kind = DIRECT_CONNECTION
        /\ emissions[e].trace[2].kind = QUEUED_CONNECTION
        /\ emissions[e].trace[3].kind = QUEUED_CONNECTION
        /\ emissions[e].start[2] # emissions[e].start[3]
        /\ \E k \in Runs(e, 1), l \in Runs(e, 2), m \in Runs(e, 3) :
               log[l].thread = log[m].thread /\ k < l /\ l < m

\* ---------------------------------------------------------------- claim C3
\* C3: when a slot dispatched Direct raises, emit does not raise, and every
\* connection later in the list is still dispatched for that emission with
\* the emitted argument (no slot of the emission having emptied the list
\* with disconnect(), which is the matter of C4).
C3_ExceptionIsolation ==
    \A e \in Emissions :
        LET E == emissions[e]
        IN  \A k \in DOMAIN log :
                (/\ log[k].eid = e
                 /\ log[k].beh = "raise"
                 /\ E.trace[log[k].pos].kind = DIRECT_CONNECTION)
                => /\ E.result # "raised"
                   /\ (Finished(e) /\ ~Cleared(e)) =>
                          \A q \in log[k].pos + 1 .. Len(E.start) :
                              /\ Dispatched(e, q)
                              /\ \A m \in Runs(e, q) : log[m].arg = E.arg
                              /\ E.trace[q].outcome = "body" =>
                                     Runs(e, q) # {}

\* Three slots, the second raised: emit returned and slots 1 and 3 ran.
C3_Witness ==
    \E e \in Emissions :
        /\ emissions[e].result = "returned"
        /\ Len(emissions[e].start) = 3
        /\ \E k \in Runs(e, 1), l \in Runs(e, 2), m \in Runs(e, 3) :
               /\ log[l].beh = "raise"
               /\ emissions[e].trace[2].kind = DIRECT_CONNECTION
               /\ log[k].arg = emissions[e].arg
               /\ log[m].arg = emissions[e].arg

\* ---------------------------------------------------------------- claim C4
\* C4 as stated: when a slot run by an emission calls disconnect on the
\* emitting signal, with or without arguments, emit still dispatches every
\* connection that was in the list when it was called.
C4_DisconnectInSlotKeepsEmission ==
    \A e \in Emissions :
        (Finished(e) /\ Disconnecting(e)) =>
            Len(emissions[e].trace) = Len(emissions[e].start)

\* ---------------------------------------------------------------- claim C5
\* C5: once disconnect(receiver=R, slot=S) has returned n > 0, no emission
\* called later runs S for receiver R, until S is connected to R again.
C5_DisconnectedPairNotInvoked ==
    \A k \in DOMAIN log :
        log[k].eid \in Emissions =>
            <<log[k].conn.receiver, log[k].conn.slot>>
                \notin emissions[log[k].eid].removed

\* An emission was called after disconnect(R1, R1.on_sync) had removed a
\* connection, and it ran the slots that stayed connected.
C5_Witness ==
    \E e \in Emissions :
        /\ Quiet(e)
        /\ <<"R1", Val("R1", "on_sync")>> \in emissions[e].removed
        /\ emissions[e].start # <<>>
        /\ \A p \in 1 .. Len(emissions[e].start) : Runs(e, p) # {}

\* ---------------------------------------------------------------- claim C6
\* C6: disconnect() with no arguments returns the number of connections the
\* signal held and leaves the list empty, and an emit that follows it
\* dispatches nothing and runs no slot.
C6_DisconnectAll ==
    /\ (last.op = "disconnect" /\ last.receiver = None /\ last.slot = NoneVal)
       => (last.ret = last.held /\ connections = <<>>)
    /\ \A e \in Emissions :
           emissions[e].after_clear =>
               /\ emissions[e].start = <<>>
               /\ emissions[e].trace = <<>>
               /\ \A k \in DOMAIN log : log[k].eid # e

\* disconnect() returned 3 and the emit that followed has returned.
C6_Witness ==
    /\ \E e \in Emissions : emissions[e].after_clear /\ Finished(e)
    /\ log = <<>>

\* ---------------------------------------------------------------- claim C7
\* The affinity records an object of this library can carry: none, the
\* thread and loop a t_slot wrapper initialised lazily (no token), those of
\* t_with_signals on T1 or T2, those of an object moved to a worker running
\* on T2, and those of a worker that has not been started.
AffinityRecords ==
    {PlainObject, LazyObject, t_with_signals("T1"), t_with_signals("T2"),
     MovedObject, IdleWorker}

\* One connection of every shape connect makes, a signal with or without an
\* owner, and every pair of affinity records for owner and receiver.
InitKind ==
    /\ \E a, b \in AffinityRecords :
           objs = [o \in Objects |->
                      IF o = "S" THEN a ELSE IF o = "R1" THEN b
                      ELSE IF o = "R2" THEN t_with_signals("T2")
                      ELSE IF o = "W" THEN IdleWorker
                      ELSE PlainObject]
    /\ loopState = [l \in Loops |-> "running"]
    /\ ready = [l \in Loops |-> <<>>]
    /\ owner \in {None, "S"}
    /\ \E f \in Funcs, k \in Kinds :
           \E a \in {<<Val("R1", f), NoneVal>>,
                     <<Val("R1", None), Val("R1", f)>>,
                     <<Val(None, f), NoneVal>>} :
               connections = connect(<<>>, a[1], a[2], k).connections
    /\ em = EmIdle
    /\ emissions = <<>>
    /\ log = <<>>
    /\ removed = {}
    /\ last = Call("init", None, NoneVal, 0, 0)
    /\ from_emit = [t \in Threads |-> FALSE]
    /\ calls = <<>>
    /\ worker = WorkerClass
    /\ runs = <<>>
    /\ stopper = StopIdle
    /\ events = <<>>
    /\ tasks = <<>>
    /\ mover = MoveIdle

NextKind ==
    \/ \E t \in {"T1", "T3"}, arg \in Args : EmitStart(t, arg)
    \/ \E b \in Behaviours : EmitStep(b)
    \/ EmitEnd
    \/ \E l \in Loops, b \in Behaviours : LoopRun(l, b)

SpecKind == InitKind /\ [][NextKind]_vars

\* "o has affinity fields": both an owner thread and an affinity token.
C7_HasAffinity(o) == o # None /\ objs[o].hasThread /\ objs[o].hasAffinity

\* The decision table of the claim.
C7_Table(c) ==
    IF c.conn_type # AUTO_CONNECTION THEN c.conn_type
    ELSE IF c.is_coro_slot THEN QUEUED_CONNECTION
    ELSE IF C7_HasAffinity(c.receiver) /\ C7_HasAffinity(owner)
         THEN IF objs[c.receiver].affinity = objs[owner].affinity
              THEN DIRECT_CONNECTION
              ELSE QUEUED_CONNECTION
         ELSE DIRECT_CONNECTION

\* C7: the effective kind emit computes for a connection is the one the
\* decision table gives for its requested kind, is_suspending, receiver and
\* the affinity fields and tokens of receiver and signal owner.
C7_EffectiveKind ==
    \A e \in Emissions :
        \A p \in 1 .. Len(emissions[e].trace) :
            emissions[e].trace[p].kind = C7_Table(emissions[e].start[p])

\* An Auto connection with a synchronous slot, receiver and owner on the
\* same thread with different tokens, was dispatched Queued.
C7_Witness ==
    \E e \in Emissions :
        /\ Len(emissions[e].trace) = 1
        /\ emissions[e].start[1].conn_type = AUTO_CONNECTION
        /\ ~emissions[e].start[1].is_coro_slot
        /\ owner = "S"
        /\ objs["S"] = t_with_signals("T2")
        /\ objs["R1"] = MovedObject
        /\ emissions[e].start[1].receiver = "R1"
        /\ emissions[e].trace[1].kind = QUEUED_CONNECTION

\* ---------------------------------------------------------------- claim C8
\* Direct call c was made from a thread that is not the owner's thread.
C8_Applies(c) == c.owner # None /\ c.caller # c.owner

\* C8 as stated: whenever a member slot, synchronous or suspending, is called
\* directly from a thread that is not the owner's thread, its body executes
\* on the owner's thread.
C8_BodyOnOwnerThread ==
    \A i \in DOMAIN calls :
        C8_Applies(calls[i]) /\ calls[i].body.thread # None
            => calls[i].body.thread = calls[i].owner

\* C8, amended: whenever a member slot, synchronous or suspending, is called
\* directly from a thread that is not the owner's thread while the emission
\* flag is unset in the caller's context (the call is not made from a slot
\* that an emission is running), the calling thread does not execute the
\* body: the body is executed by the owner's loop, on the thread that runs
\* that loop - the owner's thread, for every object whose owner loop is the
\* loop of its owner thread.
C8_BodyOnOwnerLoopOutsideEmission ==
    \A i \in DOMAIN calls :
        C8_Applies(calls[i]) /\ ~calls[i].flag
            => /\ calls[i].outcome # "body"
               /\ calls[i].body.thread \in {None, calls[i].loop}
               /\ calls[i].loop = calls[i].owner
                      => calls[i].body.thread \in {None, calls[i].owner}

\* A synchronous and a suspending member slot of R1, owned by T1, were called
\* from other threads outside any emission, and both bodies ran on T1.
C8_Witness ==
    \E i, j \in DOMAIN calls :
        /\ C8_Applies(calls[i]) /\ C8_Applies(calls[j])
        /\ ~calls[i].flag /\ ~calls[j].flag
        /\ calls[i].slot = Val("R1", "on_sync")
        /\ calls[j].slot = Val("R1", "on_async")
        /\ calls[i].body.thread = "T1" /\ calls[j].body.thread = "T1"
        /\ calls[i].caller # "T1" /\ calls[j].caller # "T1"

\* ---------------------------------------------------------------- claim C9
\* Direct call c is a call of a synchronous member slot, outside any
\* emission, from a thread other than the owner's thread, made while the
\* owner's loop is running.
C9_Applies(c) ==
    /\ ~iscoroutinefunction(c.slot)
    /\ ~c.flag
    /\ c.owner # None
    /\ c.caller # c.owner
    /\ c.running

\* C9: such a call returns to the caller exactly the value the slot body
\* returned, or raises in the caller exactly the exception the body raised,
\* and the caller does not resume before the body has finished: until then
\* it is blocked.
C9_SyncCallResult ==
    \A i \in DOMAIN calls :
        C9_Applies(calls[i])
            => /\ calls[i].state \in {"blocked", "done"}
               /\ calls[i].state = "done"
                      => /\ calls[i].body.thread # None
                         /\ calls[i].got = calls[i].body.out
               /\ calls[i].body.thread = None => Blocked(calls[i].caller)

\* Two such calls have returned to their callers: one body returned "v2",
\* which the caller received, the other raised KeyError, which the caller
\* saw raised.
C9_Witness ==
    \E i, j \in DOMAIN calls :
        /\ C9_Applies(calls[i]) /\ C9_Applies(calls[j])
        /\ calls[i].state = "done" /\ calls[j].state = "done"
        /\ calls[i].body.out = [kind |-> "return", value |-> "v2"]
        /\ calls[i].got = [kind |-> "return", value |-> "v2"]
        /\ calls[j].body.out = Raises("KeyError")
        /\ calls[j].got = Raises("KeyError")

\* --------------------------------------------------------------- claim C10
\* The API calls made on the worker and the lifecycle signals it emitted.
ApiCalls == SelectSeq(events, LAMBDA e : e.ev \in {"start", "stop"})
Lifecycle == SelectSeq(events, LAMBDA e : e.ev \in {"started", "stopped"})

\* Nothing is left to run in the worker: every thread it started has ended
\* or is inside run_forever with an empty ready queue.
WorkerIdle ==
    \A i \in DOMAIN runs :
        \/ runs[i].pc = "dead"
        \/ runs[i].pc = "run_forever" /\ runs[runs[i].loop].ready = <<>>

\* C10: for a worker on which start() was called and then stop(), at any
\* later moment, `started` is emitted exactly once, `stopped` exactly once,
\* and `started` first: once stop() has returned and the worker has nothing
\* left to run, the signals emitted are started, stopped - and before that
\* they are a prefix of it.  (Stated for start() without run_coro on a class
\* with the default entry.)
C10_StartedOnceThenStoppedOnce ==
    (/\ Len(runs) = 1
     /\ runs[1].start = DefaultEntry
     /\ Len(ApiCalls) = 2
     /\ ApiCalls[1].ev = "start"
     /\ ApiCalls[2].ev = "stop")
        => /\ Len(Lifecycle) <= 2
           /\ Len(Lifecycle) >= 1 => Lifecycle[1].ev = "started"
           /\ Len(Lifecycle) = 2 => Lifecycle[2].ev = "stopped"
           /\ (stopper.pc = "idle" /\ WorkerIdle) => Len(Lifecycle) = 2

\* --------------------------------------------------------------- claim C11
\* The queued coroutines that queue_task posted on a loop, and where in the
\* history each one began and ended.
Submitted(c) == tasks[c].loop # NoRun
Began(c, n) == n \in DOMAIN events /\ events[n] = Event("task_begin", c)
Ended(c, n) == n \in DOMAIN events /\ events[n] = Event("task_end", c)

\* C11: of two coroutines that one thread submitted with queue_task to a
\* worker that was started once, the later one begins only after the earlier
\* one has ended: the queued coroutines run one at a time, in the order of
\* their submission.
C11_OneAtATimeInSubmissionOrder ==
    \A i, j \in DOMAIN tasks :
        (i < j /\ Submitted(i) /\ Submitted(j))
            => \A n \in DOMAIN events :
                   Began(j, n) => \E m \in 1 .. n - 1 : Ended(i, m)

\* Three coroutines were submitted and all of them have run to their end.
C11_Witness ==
    /\ Len(tasks) = MaxTasks
    /\ \A c \in DOMAIN tasks : tasks[c].state \in {"done", "failed"}
    /\ \E n, m \in DOMAIN events : Began(1, n) /\ Began(2, m) /\ n < m

\* --------------------------------------------------------------- claim C12
\* stop() was never called.
NeverStopped == \A n \in DOMAIN events : events[n].ev # "stop"

\* C12: a queued coroutine that raises does not stop the queue processor.  On
\* a worker that was started once and never stopped, once nothing is left to
\* run, every coroutine submitted after one that raised has run to its end,
\* after the one that raised and in the order of submission (C11).
C12_RaisingTaskDoesNotStopQueue ==
    (NeverStopped /\ WorkerIdle)
        => \A i, j \in DOMAIN tasks :
               (i < j /\ Submitted(i) /\ Submitted(j)
                      /\ tasks[i].state = "failed")
                   => /\ tasks[j].state \in {"done", "failed"}
                      /\ \E n, m \in DOMAIN events :
                             Ended(i, n) /\ Began(j, m) /\ n < m

\* a, fail, b were submitted: a returned, fail raised, and b has returned.
C12_Witness ==
    /\ NeverStopped
    /\ WorkerIdle
    /\ Len(tasks) = 3
    /\ \A c \in DOMAIN tasks : Submitted(c)
    /\ tasks[1].state = "done"
    /\ tasks[2].state = "failed"
    /\ tasks[3].state = "done"

\* --------------------------------------------------------------- claim C13
\* Object o carries the worker's affinity token: a move brought it there.
Moved(o) == o \in MoveTargets /\ objs[o].hasAffinity
                /\ objs[o].affinity = objs["W"].affinity

\* o has affinity fields and a token that is not the worker's.
ForeignToken(o) == /\ objs[o].hasThread
                   /\ objs[o].hasAffinity
                   /\ objs[o].affinity # objs["W"].affinity

\* The closure emit posted for position p of emission e is queued on loop l
\* or was run by it.
PostedOn(e, p, l) ==
    \/ \E k \in DOMAIN ready[l] : ready[l][k].eid = e /\ ready[l][k].pos = p
    \/ \E n \in DOMAIN log :
           log[n].eid = e /\ log[n].pos = p /\ log[n].thread = l

\* C13: when move_to_thread(T) has returned, T's thread, loop and token are
\* the worker's; and in an emission that began after the last move (the
\* latest emission, when no API call has followed it), an Auto
\* connection with a synchronous slot is dispatched Direct between a moved
\* object and the worker, Queued between a moved object and an object with
\* another token, and what is queued for a moved receiver is posted on the
\* worker's loop and on no other - whether the connection was made before
\* the move or after it.
C13_MovedTargetFollowsWorker ==
    /\ (last.op = "move_to_thread" /\ last.ret = None)
           => /\ objs[last.receiver].hasThread
              /\ objs[last.receiver].hasLoop
              /\ objs[last.receiver].hasAffinity
              /\ objs[last.receiver].thread = objs["W"].thread
              /\ objs[last.receiver].loop = objs["W"].loop
              /\ objs[last.receiver].affinity = objs["W"].affinity
    /\ last.op = "emit"
           => \A e \in {Len(emissions)} :
                  \A p \in 1 .. Len(emissions[e].trace) :
                      LET c == emissions[e].start[p]
                          k == emissions[e].trace[p].kind
                      IN  (c.conn_type = AUTO_CONNECTION /\ ~c.is_coro_slot
                               /\ c.receiver # None)
                              => /\ ((Moved(c.receiver) /\ owner = "W")
                                        \/ (c.receiver = "W" /\ Moved(owner)))
                                     => k = DIRECT_CONNECTION
                                 /\ ((Moved(c.receiver) /\ ForeignToken(owner))
                                        \/ (Moved(owner)
                                               /\ ForeignToken(c.receiver)))
                                     => k = QUEUED_CONNECTION
                                 /\ (Moved(c.receiver)
                                        /\ k = QUEUED_CONNECTION)
                                     => \A l \in Loops :
                                            PostedOn(e, p, l)
                                                <=> l = objs["W"].loop

\* R1, constructed on T1 like the signal's owner S, was connected and then
\* moved to the worker on T2: the emission on T1 was queued and the slot ran
\* on T2.
C13_Witness ==
    /\ last.op = "emit"
    /\ owner = "S"
    /\ Moved("R1")
    /\ \E e \in Emissions :
           /\ emissions[e].thread = "T1"
           /\ emissions[e].start[1].receiver = "R1"
           /\ Len(emissions[e].trace) >= 1
           /\ emissions[e].trace[1].kind = QUEUED_CONNECTION
           /\ \E n \in DOMAIN log :
                  log[n].eid = e /\ log[n].pos = 1 /\ log[n].thread = "T2"

\* --------------------------------------------------------------- claim C14
\* C14: connect(None, slot) raises AttributeError; connect(receiver, slot)
\* with a slot that is not callable and connect(x) with an x that is not
\* callable raise TypeError; a conn_type that is none of the three kinds,
\* with arguments that are otherwise accepted, raises ValueError; and a
\* connect that raises leaves the connection list as it was.
C14_InvalidConnectRaises ==
    [][\A a \in AnyConnectArgs :
           ConnectAny(a)
               => /\ (a.slot # NoneVal /\ a.ros = NoneVal)
                         => last'.ret = "AttributeError"
                  /\ (a.slot # NoneVal /\ a.ros # NoneVal /\ ~callable(a.slot))
                         => last'.ret = "TypeError"
                  /\ (a.slot = NoneVal /\ ~callable(a.ros))
                         => last'.ret = "TypeError"
                  /\ (a.kind \notin Kinds
                          /\ (a.slot = NoneVal => callable(a.ros))
                          /\ (a.slot # NoneVal
                                  => a.ros # NoneVal /\ callable(a.slot)))
                         => last'.ret = "ValueError"
                  /\ last'.ret # None => connections' = connections]_vars

\* A connect with an invalid kind has raised ValueError on a signal that
\* holds two connections.
C14_Witness ==
    /\ last.op = "connect"
    /\ last.ret = "ValueError"
    /\ last.held = 2
    /\ Len(connections) = 2

\* --------------------------------------------------------------- claim C15
\* C15: start() on a worker that is not Stopped fails and changes nothing.
\* Where stop() is never called, the worker leaves Stopped with its first
\* start() for good: only that call creates a thread, and the thread, loop
\* and task queue the worker names are those of that first thread.
C15_SecondStartRejected ==
    /\ Len(runs) <= 1
    /\ worker.thread \in {NoRun, 1}
    /\ worker.loop \in {NoRun, 1}
    /\ worker.task_queue \in {NoRun, 1}

\* --------------------------------------------------------------- claim C16
\* The worker is not Running and no call is under way: start() was never
\* called, or a stop() that found the worker running has returned since.
NotRunning ==
    /\ stopper.pc = "idle"
    /\ \/ \A n \in DOMAIN events : events[n].ev # "start"
       \/ \E n \in DOMAIN events :
              /\ events[n].ev = "stop_returned"
              /\ events[n].run # NoRun
              /\ \A m \in n + 1 .. Len(events) : events[m].ev # "start"

\* This step is a call of stop().
StopCalled ==
    /\ Len(ApiCalls') = Len(ApiCalls) + 1
    /\ ApiCalls'[Len(ApiCalls')].ev = "stop"

\* C16: stop() on a worker that was never started or is already stopped does
\* nothing: the call returns at once, no signal is emitted, and the worker's
\* thread, loop, stopping event and task queue, and the threads it started,
\* are what they were - so that a second stop() changes nothing.
C16_StopWhenNotRunningIsNoOp ==
    [][(NotRunning /\ StopCalled)
           => /\ stopper'.pc = "idle"
              /\ events'[Len(events')] = Event("stop_returned", NoRun)
              /\ Lifecycle' = Lifecycle
              /\ worker' = worker
              /\ runs' = runs
              /\ tasks' = tasks]_vars

\* stop() was called twice on a started worker: the first call stopped it,
\* the second one has returned without doing anything.
C16_Witness ==
    /\ stopper.pc = "idle"
    /\ Len(ApiCalls) = 3
    /\ ApiCalls[1].ev = "start"
    /\ ApiCalls[2] = Event("stop", 1)
    /\ ApiCalls[3] = Event("stop", NoRun)

\* --------------------------------------------------------------- claim C17
\* C17: when a stop() that found the worker running returns, the worker's
\* thread has ended (its loop halted and closed on the way out of
\* thread_main) and the worker's loop and thread attributes are cleared.
C17_StopReturnsAfterThreadEnded ==
    \A n \in DOMAIN events :
        (n = Len(events) /\ events[n].ev = "stop_returned"
                         /\ events[n].run # NoRun)
            => /\ ~is_alive(runs, events[n].run)
               /\ worker.loop = NoRun
               /\ worker.thread = NoRun

\* --------------------------------------------------------------- claim C18
\* C18: move_to_thread raises RuntimeError when the worker has no thread or
\* no loop, and TypeError when the worker has both and the target has none
\* of the affinity fields; a call that raises leaves the target, and every
\* other object, as it was.
C18_MoveToThreadFailures ==
    [][\A t \in MoveTargets :
           MoveToThread(t)
               => /\ (objs["W"].thread = None \/ objs["W"].loop = None)
                         => last'.ret = "RuntimeError"
                  /\ (objs["W"].thread # None /\ objs["W"].loop # None
                          /\ ~objs[t].hasThread /\ ~objs[t].hasLoop
                          /\ ~objs[t].hasAffinity)
                         => last'.ret = "TypeError"
                  /\ last'.ret # None => objs' = objs]_vars

\* The undecorated object P was handed to a running worker, which raised
\* TypeError and left it without attributes.
C18_Witness ==
    /\ last.op = "move_to_thread"
    /\ last.receiver = "P"
    /\ last.ret = "TypeError"
    /\ objs["W"] = MovedObject
    /\ objs["P"] = PlainObject

\* --------------------------------------------------------------- claim C19
\* C19: one thread emits e1 and then e2 over a connection that is Queued in
\* effect, to a receiver on another loop.  The slot body for e1 begins before
\* the one for e2, no emission is delivered twice, and once the receiver's
\* loop has nothing left of them each has been delivered once: emitting 0,
\* 1, 2 makes the slot see 0, 1, 2.
C19_QueuedEmissionsInOrder ==
    /\ \A n, m \in DOMAIN log : n < m => log[n].eid < log[m].eid
    /\ \A n \in DOMAIN log : log[n].arg = log[n].eid - 1
    /\ \A e \in Emissions : Quiet(e) => Cardinality(Runs(e, 1)) = 1

\* T3 has emitted 0, 1 and 2 and the slot has run three times on T2.
C19_Witness ==
    /\ Len(emissions) = 3
    /\ \A e \in Emissions : Quiet(e)
    /\ Len(log) = 3
    /\ log[1].thread = "T2"
    /\ emissions[1].thread = "T3"

\* --------------------------------------------------------------- claim C20
\* The effective kind under which the slot body of log entry n was
\* dispatched.
EffectiveKind(n) == emissions[log[n].eid].trace[log[n].pos].kind

QueuedPositions(e) ==
    {p \in DOMAIN emissions[e].trace :
         emissions[e].trace[p].kind = QUEUED_CONNECTION}

\* C21: for a connection that is Queued in effect, emit does not run the slot
\* (neither its body nor its coroutine is made inside emit), emit is never
\* held up at such a connection, emit does not end with an exception, and as
\* long as emit has not returned no body of that emission has run on the
\* emitting thread, so that a body posted to the emitter's own loop starts
\* after emit has returned.
C21_QueuedNeverOnEmitStack ==
    /\ \A e \in Emissions : \A p \in QueuedPositions(e) :
           /\ emissions[e].trace[p].outcome \notin {"body", "coroutine"}
           /\ emissions[e].result # "raised"
           /\ ~Finished(e) =>
                  \A k \in Runs(e, p) : log[k].thread # emissions[e].thread
    /\ (em.active /\ em.idx < Len(IterList))
           => ENABLED EmitStep("return") \/ ENABLED EmitStep("raise")
              \/ ENABLED EmitStep("disconnect")
    /\ (em.active /\ em.idx >= Len(IterList)) => ENABLED EmitEnd

\* T1 emitted over a connection that is Queued in effect to a receiver whose
\* loop is T1's own; emit has returned, the closure is still in T1's queue
\* and the slot body has not run.
C21_Witness ==
    \E e \in Emissions : \E p \in QueuedPositions(e) :
        /\ emissions[e].thread = "T1"
        /\ emissions[e].result = "returned"
        /\ emissions[e].trace[p].outcome = "posted"
        /\ \E k \in DOMAIN ready["T1"] :
               ready["T1"][k].eid = e /\ ready["T1"][k].pos = p
        /\ Runs(e, p) = {}

Standalone(f) ==
    /\ callable(f)
    /\ ~(has_self(f) /\ objs[f.self].hasThread /\ objs[f.self].hasLoop)

\* The positions of the list `conns` that connect(f) made for callable f.
WrappersOf(conns, f) ==
    {i \in DOMAIN conns :
         conns[i].receiver = None /\ conns[i].wrapped /\ conns[i].slot = f}

\* The positions of the list `conns` whose slot is the callable f itself.
SlotIs(conns, f) ==
    {i \in DOMAIN conns : ~conns[i].wrapped /\ conns[i].slot = f}

\* C23: disconnect(slot=f), for a callable f that connect(f) wraps, leaves no
\* connection made by connect(f) (and none whose slot is f) in the list and
\* returns the number of connections it removed: those made by connect(f)
\* and those connected with a receiver and the slot f, so that it returns the
\* number of connect(f) connections when there are no others.  An emission
\* invokes a receiver-less slot only if a connection of it was in the list
\* when emit was called, hence not f after that disconnect.
C23_DisconnectByFunction ==
    /\ [][\A f \in ListSlots :
              (Standalone(f) /\ Disconnect(None, f))
                  => /\ WrappersOf(connections', f) = {}
                     /\ SlotIs(connections', f) = {}
                     /\ last'.ret = Cardinality(WrappersOf(connections, f))
                                    + Cardinality(SlotIs(connections, f))
                     /\ Len(connections') = Len(connections) - last'.ret]_vars
    /\ [](\A k \in DOMAIN log :
              log[k].conn.receiver = None
                  => WrappersOf(emissions[log[k].eid].start,
                                log[k].conn.slot) # {})

\* connect(f) was called twice for the function on_sync and once for
\* something else, and disconnect(slot=on_sync) has just returned 2.
C23_Witness ==
    /\ last.op = "disconnect"
    /\ last.receiver = None
    /\ last.slot = Val(None, "on_sync")
    /\ last.held = 3
    /\ last.ret = 2
    /\ Len(connections) = 1
    /\ WrappersOf(connections, Val(None, "on_sync")) = {}

\* --------------------------------------------------------------- claim C24
\* A task in one of these states has finished.
TaskFinished == {"done", "raised", "cancelled"}

\* C24: whenever `stopped` has been emitted for a run, the entry task of that
\* run has finished (returned, raised or been cancelled), and the queue
\* processor, if that run started one, has finished too - whichever way the
\* entry coroutine ended.
C24_StoppedAfterTasksFinished ==
    \A n \in DOMAIN events :
        events[n].ev = "stopped"
            => LET r == runs[events[n].run]
               IN  /\ r.run_task \in TaskFinished
                   /\ r.pq # "none" => r.pq \in TaskFinished

\* --------------------------------------------------------------- claim C25
\* The target of connection c is unavailable: its receiver has no loop
\* (no attribute, or None) or a loop that is not running.
TargetUnavailable(c) ==
    /\ c.receiver # None
    /\ \/ ~objs[c.receiver].hasLoop
       \/ objs[c.receiver].loop = None
       \/ loopState[objs[c.receiver].loop] # "running"

\* A closure of position p of emission e is in the queue of some loop.
Posted(e, p) ==
    \E l \in Loops : \E k \in DOMAIN ready[l] :
        ready[l][k].eid = e /\ ready[l][k].pos = p

\* C25: a connection that emit finds Queued in effect and whose target is
\* unavailable is skipped - nothing is posted for it and its slot body never
\* runs for that emission - emit does not raise, and emit still goes through
\* the whole list: once it has returned every connection has been dispatched,
\* a Direct synchronous slot has run and every other available Queued target
\* has had its closure posted.
C25_UnavailableTargetSkipped ==
    \A e \in Emissions :
        /\ emissions[e].result # "raised"
        /\ Finished(e) => Len(emissions[e].trace) = Len(emissions[e].start)
        /\ \A p \in DOMAIN emissions[e].trace :
               LET c == emissions[e].start[p]
                   x == emissions[e].trace[p]
               IN  IF x.kind = QUEUED_CONNECTION
                   THEN IF TargetUnavailable(c)
                        THEN /\ x.outcome \in {"no_loop", "not_running"}
                             /\ ~Posted(e, p)
                             /\ Runs(e, p) = {}
                        ELSE c.receiver # None
                                 => /\ x.outcome = "posted"
                                    /\ Posted(e, p) \/ Runs(e, p) # {}
                   ELSE ~c.is_coro_slot => Runs(e, p) # {}

\* emit has returned; it skipped a connection whose receiver has no loop and
\* one whose receiver's loop is not running, and the Direct slot after them
\* has run.
C25_Witness ==
    \E e \in Emissions :
        /\ emissions[e].result = "returned"
        /\ Len(emissions[e].trace) = 3
        /\ emissions[e].trace[1].outcome = "no_loop"
        /\ emissions[e].trace[2].outcome = "not_running"
        /\ emissions[e].trace[3].kind = DIRECT_CONNECTION
        /\ Runs(e, 1) = {} /\ Runs(e, 2) = {} /\ Runs(e, 3) # {}

\* --------------------------------------------------------------- claim C26
\* C26: an emit that was called on a thread with no running loop and came to
\* a connection without receiver that is Queued in effect ends by raising
\* RuntimeError to its caller.
C26_NoLoopErrorRaisedToCaller ==
    \A e \in Emissions :
        (/\ Finished(e)
         /\ get_running_loop(emissions[e].thread) = None
         /\ \E p \in DOMAIN emissions[e].trace :
                /\ emissions[e].trace[p].kind = QUEUED_CONNECTION
                /\ emissions[e].start[p].receiver = None)
            => emissions[e].result = "raised"

\* --------------------------------------------------------------- claim C27
\* A direct call of a synchronous member slot, outside an emission, from a
\* thread that is not the owner's, made while the owner's loop was absent or
\* not running (stopped or closed).
C27_Applies(c) ==
    /\ ~iscoroutinefunction(c.slot)
    /\ ~c.flag
    /\ c.owner # None
    /\ c.caller # c.owner
    /\ ~c.running

\* C27: such a call does not block: it has raised RuntimeError in the caller
\* and the slot body has not run.
C27_NoLoopErrorWhenLoopUnavailable ==
    \A i \in DOMAIN calls :
        C27_Applies(calls[i])
            => /\ calls[i].state = "done"
               /\ calls[i].got = Raises("RuntimeError")
               /\ calls[i].body = NoBody

\* --------------------------------------------------------------- claim C28
\* C28: disconnect(R, S) with a receiver R and a slot S leaves exactly the
\* connections that do not have both the receiver R and the slot S, in
\* their order: a connection without receiver that wraps S is among them.
C28_DisconnectBothExact ==
    [][\A sl \in ListSlots :
           Disconnect("R1", sl)
               => connections' =
                      SelectSeq(connections,
                                LAMBDA c : ~(c.receiver = "R1"
                                             /\ slot_eq(c, sl)))]_vars

\* --------------------------------------------------------------- claim C29
\* The elements of `seq` at the positions in K, in their order.
Restrict(seq, K) ==
    LET F[n \in 0 .. Len(seq)] ==
            IF n = 0 THEN <<>>
            ELSE IF n \in K THEN Append(F[n - 1], seq[n]) ELSE F[n - 1]
    IN  F[Len(seq)]

\* C29: every disconnect call leaves a list made of some of the connections
\* it found, unchanged (receiver, slot, kind and is_coro_slot) and in the
\* order they had, and returns the number of connections that are gone.
C29_DisconnectCountAndOrder ==
    [][\A a \in ListDisconnectArgs :
           Disconnect(a.receiver, a.slot)
               => /\ \E K \in SUBSET DOMAIN connections :
                         connections' = Restrict(connections, K)
                  /\ last'.ret = Len(connections) - Len(connections')]_vars

\* A disconnect call found three connections and returned 1; the two that
\* are left differ in receiver and kind.
C29_Witness ==
    /\ last.op = "disconnect"
    /\ last.held = 3
    /\ last.ret = 1
    /\ Len(connections) = 2
    /\ connections[1].receiver = "R1"
    /\ connections[1].conn_type = QUEUED_CONNECTION
    /\ connections[2].receiver = "R2"
    /\ connections[2].conn_type = DIRECT_CONNECTION

\* --------------------------------------------------------------- claim C30
\* How many connections of the list `conns` have receiver r and slot sl.
PairCount(conns, r, sl) ==
    Cardinality({i \in DOMAIN conns :
                     conns[i].receiver = r /\ slot_eq(conns[i], sl)})

\* How many slot bodies emission e has run for receiver r and slot sl.
PairRuns(e, r, sl) ==
    Cardinality({k \in DOMAIN log :
                     /\ log[k].eid = e
                     /\ log[k].conn.receiver = r
                     /\ slot_eq(log[k].conn, sl)})

\* C30: a connect call that succeeds appends one connection at the end of
\* the list and leaves the connections before it as they were; an emission
\* that has been delivered has run the slot of a pair (receiver, slot) as
\* many times as the pair was in the list when emit was called; and
\* disconnect(receiver, slot) returns the number of times the pair was in
\* the list.
C30_NoDeduplication ==
    /\ [][\A a \in ListConnectArgs :
              Connect(a)
                  => /\ Len(connections') = Len(connections) + 1
                     /\ SubSeq(connections', 1, Len(connections))
                            = connections]_vars
    /\ [](\A e \in Emissions : \A r \in {"R1", "R2"} : \A sl \in ListSlots :
              Quiet(e) => PairRuns(e, r, sl)
                              = PairCount(emissions[e].start, r, sl))
    /\ [][\A sl \in ListSlots :
              Disconnect("R1", sl)
                  => last'.ret = PairCount(connections, "R1", sl)]_vars

\* --------------------------------------------------------------- claim C31
\* Auto dispatch between owner o1 and receiver o2, for a synchronous slot,
\* takes the two for co-located.
CoLocated(o1, o2) ==
    determine_connection_type(AUTO_CONNECTION, o2, o1, FALSE)
        = DIRECT_CONNECTION

\* C31 as it stands: two distinct objects that have affinity tokens and
\* were never moved have different tokens, and Auto dispatch does not take
\* them for co-located.
C31_TokensDistinct ==
    \A o1, o2 \in ConstructTargets \cup {"W"} :
        (o1 # o2 /\ objs[o1].hasAffinity /\ objs[o2].hasAffinity)
            => /\ objs[o1].affinity # objs[o2].affinity
               /\ ~CoLocated(o1, o2)

\* C31, amended: the token of a constructed object is the thread it was
\* constructed on.  Two distinct objects that were never moved have equal
\* tokens, and are co-located for Auto dispatch, exactly when they were
\* constructed on the same thread; the token of a worker is its own.
C31_TokenIsConstructingThread ==
    /\ \A o1, o2 \in ConstructTargets :
           (o1 # o2 /\ objs[o1].hasAffinity /\ objs[o2].hasAffinity)
               => /\ (objs[o1].affinity = objs[o2].affinity)
                         <=> (objs[o1].thread = objs[o2].thread)
                  /\ CoLocated(o1, o2)
                         <=> (objs[o1].thread = objs[o2].thread)
    /\ \A o \in ConstructTargets :
           objs[o].hasAffinity
               => /\ objs[o].affinity # objs["W"].affinity
                  /\ ~CoLocated(o, "W")

\* S and R1 were constructed on T1 and have the same token; R2 was
\* constructed on T2, on the loop of T1, and has another.
C31_Witness ==
    /\ objs["S"].hasAffinity /\ objs["R1"].hasAffinity
    /\ objs["R2"].hasAffinity
    /\ objs["S"].thread = "T1" /\ objs["R1"].thread = "T1"
    /\ objs["S"].affinity = objs["R1"].affinity
    /\ objs["R2"].thread = "T2" /\ objs["R2"].loop = "T1"
    /\ objs["R2"].affinity # objs["S"].affinity

\* --------------------------------------------------------------- claim C32
\* C32: for every signal-aware object and for the worker, the owner thread is
\* set exactly when the owner loop is set, in every reachable state: also
\* between start() and the publication of the loop, while stop() runs, and
\* after a slot adapter's lazy initialisation failed for lack of a loop.
C32_ThreadSetIffLoopSet ==
    /\ (worker.thread # NoRun) <=> (worker.loop # NoRun)
    /\ \A o \in Objects :
           (objs[o].hasThread /\ objs[o].thread # None)
               <=> (objs[o].hasLoop /\ objs[o].loop # None)

\* --------------------------------------------------------------- claim C33
\* C33: while emit is iterating its connections the emission flag is set in
\* the context of the emitting thread; once emit has returned or raised, the
\* flag has the value it had when emit was called - unset for a call made at
\* top level, set for a call made inside another emission - whatever the
\* slots did (returned, raised, disconnected).
C33_FlagSetDuringEmitAndRestored ==
    /\ em.active => from_emit[em.thread]
    /\ (~em.active /\ emissions # <<>>)
           => LET e == emissions[Len(emissions)]
              IN  /\ e.result \in {"returned", "raised"}
                  /\ from_emit[e.thread] = e.flag

\* A nested emit, in which a slot raised and a slot disconnected, has
\* returned with the flag still set.
C33_Witness ==
    /\ ~em.active
    /\ \E e \in Emissions :
           /\ emissions[e].flag
           /\ Finished(e)
           /\ from_emit[emissions[e].thread]
           /\ \E n \in DOMAIN log : log[n].eid = e /\ log[n].beh = "raise"
           /\ \E n \in DOMAIN log :
                  log[n].eid = e /\ log[n].beh = "disconnect_self"

\* --------------------------------------------------------------- claim C34
\* Direct calls of member slots from contexts in which the emission flag is
\* set or unset: by a slot an emission is running, and by a thread whose
\* context was copied from an emission (a closure or a task of a queued
\* dispatch).
FlagCallTargets ==
    {Val("R1", "on_sync"), Val("R2", "on_sync"), Val("R2", "on_async"),
     Val("P", "on_sync")}

FlagCallOutcomes == {[kind |-> "return", value |-> "v1"], NoOutcome}

NextFlagCall ==
    \/ \E t \in {"T1", "T3"}, arg \in Args : EmitStart(t, arg)
    \/ EmitStep("return")
    \/ EmitEnd
    \/ \E l \in Loops : LoopRun(l, "return")
    \/ \E t \in Threads, v \in FlagCallTargets, out \in FlagCallOutcomes :
           DirectCall(t, v, out)
    \/ \E l \in Loops, out \in FlagCallOutcomes : LoopRunCall(l, out)
    \/ \E i \in DOMAIN calls : FutureResult(i)

SpecFlagCall == InitFlag /\ [][NextFlagCall]_vars

\* C34: a member slot called while the emission flag is set in the caller's
\* context - by a slot that an emission is running, or in a context copied
\* from an emission - is never marshalled: nothing is posted to any loop and
\* its body runs on the calling thread, owner's thread or not.  The only
\* call that runs no body is one the adapter refuses with RuntimeError
\* because the calling thread has no running loop to initialise from.
C34_FlagSetRunsOnCallingThread ==
    \A i \in DOMAIN calls :
        calls[i].flag
            => /\ calls[i].outcome \in {"body", "RuntimeError"}
               /\ calls[i].outcome = "RuntimeError"
                      => get_running_loop(calls[i].caller) = None
               /\ calls[i].outcome = "body"
                      => /\ calls[i].body.thread = calls[i].caller
                         /\ calls[i].state = "done"
               /\ \A l \in Loops :
                      \A n \in DOMAIN ready[l] :
                          ready[l][n].type
                                  \in {"callback", "coro", "coro_task",
                                       "resume"}
                              => ready[l][n].eid # i

\* The slot of R2, owned by T2, was called by a slot body that an emission
\* was running on T1, and the slot of R1, owned by T1, was called on T2 in
\* a context that inherited the flag: both bodies ran on the calling thread.
C34_Witness ==
    \E i, j \in DOMAIN calls :
        /\ calls[i].flag /\ calls[j].flag
        /\ calls[i].slot = Val("R2", "on_sync")
        /\ calls[i].caller = "T1" /\ calls[i].owner = "T2"
        /\ calls[i].body.thread = "T1"
        /\ InSlotBody("T1")
        /\ calls[j].slot = Val("R1", "on_sync")
        /\ calls[j].caller = "T2" /\ calls[j].owner = "T1"
        /\ calls[j].body.thread = "T2"

\* --------------------------------------------------------------- claim C35
\* An emission whose slots connect a function to the emitting signal: the
\* signal starts with an Auto connection to the slot of R1 and one to the
\* slot of R2, and holds at most MaxConns connections.
NextGrow ==
    \/ \E t \in {"T1", "T3"}, arg \in Args : EmitStart(t, arg)
    \/ \E b \in {"return", "raise", "connect"} :
           /\ b = "connect" => Len(connections) < MaxConns
           /\ EmitStep(b)
    \/ EmitEnd
    \/ \E l \in Loops, b \in {"return", "raise"} : LoopRun(l, b)

SpecGrow == InitCall /\ [][NextGrow]_vars

\* C35: emit dispatches only the connections that existed when it was
\* called: it makes at most as many dispatches as the signal held
\* connections at its start, and none of a connection a slot added during
\* the emission.
C35_OnlyConnectionsAtStart ==
    \A e \in Emissions :
        /\ Len(emissions[e].trace) <= Len(emissions[e].start)
        /\ \A n \in DOMAIN emissions[e].trace :
               emissions[e].trace[n].pos <= Len(emissions[e].start)

\* --------------------------------------------------------------- claim C36
\* Direct calls of the synchronous slots of R1 (owner T1) and R2 (owner T2)
\* from T1, T2 and T3 while every loop is running.  Every running loop goes
\* on taking callbacks from its queue as long as its thread is free to, and
\* a caller whose future is finished goes on: weak fairness of the loops'
\* steps and of future.result().
MutualTargets == {Val("R1", "on_sync"), Val("R2", "on_sync")}

NextMutual ==
    \/ \E t \in Threads, v \in MutualTargets, out \in Outcomes \cup {NoOutcome} :
           DirectCall(t, v, out)
    \/ \E l \in Loops, out \in Outcomes \cup {NoOutcome} : LoopRunCall(l, out)
    \/ \E i \in DOMAIN calls : FutureResult(i)

FairMutual ==
    /\ \A l \in Loops :
           WF_vars(\E out \in Outcomes \cup {NoOutcome} : LoopRunCall(l, out))
    /\ \A i \in 1 .. MaxCalls : WF_vars(i \in DOMAIN calls /\ FutureResult(i))

SpecMutual == Init /\ [][NextMutual]_vars /\ FairMutual

\* C36: every direct call of a synchronous member slot made from a thread
\* other than the owner's, while the owner's loop is running, eventually
\* returns to its caller - also when two loop threads call each other's
\* slots at the same time.
C36_CrossThreadCallReturns ==
    \A i \in 1 .. MaxCalls :
        [](i \in DOMAIN calls /\ calls[i].state = "blocked"
               => <>(i \in DOMAIN calls /\ calls[i].state = "done"))

\* --------------------------------------------------------------- claim C37
\* The worker when the driver thread calls start(), stop() and, once stop()
\* has cleared the thread, start() again: a class with the default entry or
\* with a `run` that suspends until it is cancelled.
AgainArgs ==
    {DefaultEntry, [run_coro |-> None, queue |-> FALSE, end |-> "suspend"]}

NextAgain ==
    \/ \E a \in AgainArgs : worker.thread = NoRun /\ Start(a)
    \/ \E i \in DOMAIN runs : ThreadMain(i)
    \/ \E i \in DOMAIN runs : RunForever(i)
    \/ StopRead
    \/ StopPost
    \/ StopClear

SpecAgain == Init /\ [][NextAgain]_vars

\* C37: in every run of a worker - the first and one started after
\* start(); stop() - the entry task is cancelled and `stopped` is emitted
\* only after a stop request made during that run.
C37_StoppedOnlyAfterStopOfThatRun ==
    /\ \A n \in DOMAIN events :
           events[n].ev = "stopped"
               => \E m \in 1 .. n - 1 :
                      events[m].ev = "stop" /\ events[m].run = events[n].run
    /\ \A i \in DOMAIN runs :
           runs[i].run_cancel
               => \E m \in DOMAIN events :
                      events[m].ev = "stop" /\ events[m].run = i

\* --------------------------------------------------------------- claim C38
\* C38: whenever the worker's loop attribute is set, its task queue exists;
\* so whenever queue_task has read a loop and posted a put on it, and
\* whenever a posted put is waiting in a loop's queue, there is a task queue
\* for it to go to - however queue_task interleaves with start().
C38_PublishedLoopHasQueue ==
    /\ worker.loop # NoRun => worker.task_queue # NoRun
    /\ \A c \in DOMAIN tasks :
           tasks[c].loop # NoRun => worker.task_queue # NoRun
    /\ \A i \in DOMAIN runs :
           \A n \in DOMAIN runs[i].ready :
               runs[i].ready[n].kind = "put" => worker.task_queue # NoRun

\* queue_task has posted a put on the loop the worker thread had just
\* published, before that thread created its runner task.
C38_Witness ==
    /\ worker.loop # NoRun
    /\ runs[worker.loop].pc \in {"read_loop", "create_task"}
    /\ \E c \in DOMAIN tasks :
           /\ tasks[c].loop = worker.loop
           /\ tasks[c].state = "posted"
    /\ worker.task_queue = worker.loop

\* --------------------------------------------------------------- claim C39
\* Queued coroutine c was accepted by queue_task while the queue processor
\* of the running worker was active.
Accepted(c) == tasks[c].loop # NoRun /\ tasks[c].active

\* A coroutine that was awaited to completion: it returned or it raised.
TaskCompleted == {"done", "failed"}

\* stop() was called on a running worker.
StopRequested ==
    \E m \in DOMAIN events : events[m].ev = "stop" /\ events[m].run # NoRun

\* C39 as stated: every coroutine accepted while the queue processor is
\* active is awaited to completion, stop() or not: none is cancelled
\* mid-run, and once the worker has nothing left to run none is left
\* unexecuted.
C39_AcceptedTasksCompleted ==
    \A c \in DOMAIN tasks :
        Accepted(c)
            => /\ tasks[c].state # "cancelled"
               /\ (stopper.pc = "idle" /\ WorkerIdle)
                      => tasks[c].state \in TaskCompleted

\* C39, amended: as long as stop() has not been called on the running
\* worker, no accepted coroutine is cancelled mid-run, and once the worker
\* has nothing left to run every accepted coroutine has been awaited to
\* completion.
C39_AcceptedTasksCompletedUnlessStopped ==
    \A c \in DOMAIN tasks :
        (Accepted(c) /\ ~StopRequested)
            => /\ tasks[c].state # "cancelled"
               /\ (stopper.pc = "idle" /\ WorkerIdle)
                      => tasks[c].state \in TaskCompleted

\* Without any stop(), MaxTasks coroutines accepted while the processor was
\* active have all been awaited to completion, one of them raising.
C39_Witness ==
    /\ ~StopRequested
    /\ stopper.pc = "idle" /\ WorkerIdle
    /\ Len(tasks) = MaxTasks
    /\ \A c \in DOMAIN tasks : Accepted(c) /\ tasks[c].state \in TaskCompleted
    /\ \E c \in DOMAIN tasks : tasks[c].state = "failed"

\* --------------------------------------------------------------- claim C40
\* move_to_thread(target) (234-267), called by a thread of its own on a
\* target that has the attributes, one statement at a time.  The test of
\* thread and loop holds the lifecycle lock (240-245):
MoveCheck ==
    /\ mover.pc = "idle"
    /\ mover.calls < MaxMoves
    /\ mover' = IF worker.thread = NoRun \/ worker.loop = NoRun
                THEN [mover EXCEPT !.calls = @ + 1, !.ended = "RuntimeError"]
                ELSE [mover EXCEPT !.calls = @ + 1, !.ended = None,
                                   !.pc = "copy_thread"]
    /\ UNCHANGED <<signalVars, calls, worker, runs, stopper, events, tasks>>

\* target._tsignal_thread = self._tsignal_thread (258), outside the lock.
MoveCopyThread ==
    /\ mover.pc = "copy_thread"
    /\ mover' = [mover EXCEPT !.thread = worker.thread, !.pc = "copy_loop"]
    /\ UNCHANGED <<signalVars, calls, worker, runs, stopper, events, tasks>>

\* target._tsignal_loop = self._tsignal_loop (259), outside the lock; the
\* token is copied (260) and the call returns.
MoveCopyLoop ==
    /\ mover.pc = "copy_loop"
    /\ mover' = [mover EXCEPT !.loop = worker.loop, !.pc = "idle",
                              !.ended = "returned"]
    /\ UNCHANGED <<signalVars, calls, worker, runs, stopper, events, tasks>>

\* One thread calls start(), once, and stop(); another calls
\* move_to_thread.
NextMoveRace ==
    \/ \E a \in AgainArgs : runs = <<>> /\ Start(a)
    \/ \E i \in DOMAIN runs : ThreadMain(i)
    \/ \E i \in DOMAIN runs : RunForever(i)
    \/ StopRead
    \/ StopPost
    \/ StopClear
    \/ MoveCheck
    \/ MoveCopyThread
    \/ MoveCopyLoop

SpecMoveRace == Init /\ [][NextMoveRace]_vars

\* C40: when move_to_thread(target) has returned without raising, the
\* thread and the loop it stored in the target are both set and are those
\* of one and the same run of the worker - also when stop() runs at the
\* same time.
C40_MovedTargetHasThreadAndLoopOfOneRun ==
    (mover.pc = "idle" /\ mover.ended = "returned")
        => /\ mover.thread # NoRun
           /\ mover.loop # NoRun
           /\ mover.thread = mover.loop

====
